---- MODULE Spec2Model ----
(***************************************************************************)
(* shmui::AudioAnalyzer (src/juce/Source/Audio/AudioAnalyzer.{h,cpp}):     *)
(* sample ingestion on the audio thread, the windowed magnitude transform, *)
(* the smoothed spectrum published under juce::SpinLock dataLock, and the  *)
(* queries of the UI thread.                                               *)
(*                                                                         *)
(* float values are fixed-point integers: the float x is the integer       *)
(* x * Unit, products and quotients are rounded to the nearest integer.    *)
(* The frame orders are scaled down (see kWaveformFFTOrder), but for the   *)
(* runs of SpecSizes, which have the orders of the header.                 *)
(***************************************************************************)
EXTENDS Integers, Sequences, FiniteSets, TLC

(* ------------------------------------------------------------------ *)
(* Bounds of the model                                                 *)
(* ------------------------------------------------------------------ *)

\* Frame orders, scaled down from the header's 8 and 11 so that whole frames
\* and several transforms fit in a bounded run: fftSize = 1 << order.
kWaveformFFTOrder == 2
kSpectrumFFTOrder == 3

\* processBlock names kMaxBufferSize, which no file of the repository declares;
\* the model gives it a small positive value.
kMaxBufferSize == 2

\* How many timer callbacks of a LiveWaveformVisualizer one run lets past the
\* first test.
MaxTicks == 4

\* How many calls one run makes in all, and how many of them on the audio thread.
MaxCalls == 3
MaxAudioCalls == 2

\* The largest frame order the query functions are run on: 2^(order - 1) bins.
MaxQueryOrder == 6

\* The largest frame order and band count getFrequencyBands is run on.
MaxBandOrder == 4
MaxBands == 5

(* ------------------------------------------------------------------ *)
(* float arithmetic in fixed point                                     *)
(* ------------------------------------------------------------------ *)

\* 1.0f
Unit == 1000

Abs(x) == IF x < 0 THEN -x ELSE x
Max(a, b) == IF a >= b THEN a ELSE b
Min(a, b) == IF a <= b THEN a ELSE b

\* x / d rounded to the nearest integer (d > 0)
RDiv(x, d) == (2 * x + d) \div (2 * d)

\* float product a * b
MulF(a, b) == RDiv(a * b, Unit)

\* a clamp that leaves out the lower bound
jlimitUpperOnly(lo, hi, v) == IF hi < v THEN hi ELSE v

\* juce::jlimit(lo, hi, v)
jlimit(lo, hi, v) == IF v < lo THEN lo ELSE IF hi < v THEN hi ELSE v

\* floor of the square root, by bisection: lo*lo <= x < hi*hi
RECURSIVE SqrtSearch(_, _, _)
SqrtSearch(x, lo, hi) ==
    IF hi - lo <= 1 THEN lo
    ELSE LET mid == (lo + hi) \div 2
         IN  IF mid * mid <= x THEN SqrtSearch(x, mid, hi)
                               ELSE SqrtSearch(x, lo, mid)

\* std::sqrt of a non-negative integer, rounded to the nearest integer
ISqrt(x) ==
    LET r == SqrtSearch(x, 0, 46341)
    IN  IF x - r * r > r THEN r + 1 ELSE r

\* std::sqrt of the fixed-point value v: sqrt(v / Unit) * Unit
SqrtF(v) == ISqrt(v * Unit)

\* std::cos(x) for x in [0, pi/2], x and the result scaled by 10 * Unit:
\* the Taylor series 1 - x^2/2! + x^4/4! - ... to x^12
RECURSIVE CosSeries(_, _, _, _)
CosSeries(x2, term, k, acc) ==
    IF k > 6 THEN acc
    ELSE LET t == -RDiv(RDiv(term * x2, 10 * Unit), (2 * k - 1) * (2 * k))
         IN  CosSeries(x2, t, k + 1, acc + t)

\* std::cos(2 * pi * num / den), result scaled by Unit (den > 0)
Cos2Pi(num, den) ==
    LET n0 == num % den
        n1 == IF 2 * n0 > den THEN den - n0 ELSE n0          \* cos(2pi - x) = cos x
        neg == 4 * n1 > den                                  \* cos(pi - x) = -cos x
        p == IF neg THEN den - 2 * n1 ELSE 2 * n1            \* angle = pi * p / den
        x == RDiv(31416 * p, den)
        c == CosSeries(RDiv(x * x, 10 * Unit), 10 * Unit, 1, 10 * Unit)
        r == RDiv(c, 10)
    IN  IF neg THEN -r ELSE r

\* std::sin(2 * pi * num / den) = cos(2 * pi * (4 num - den) / (4 den))
Sin2Pi(num, den) == Cos2Pi(4 * num - den, 4 * den)

RECURSIVE SumTo(_, _)
\* f[1] + ... + f[n]
SumTo(f, n) == IF n <= 0 THEN 0 ELSE f[n] + SumTo(f, n - 1)

RECURSIVE MaxAbsTo(_, _)
\* max(0, |f[1]|, ..., |f[n]|)
MaxAbsTo(f, n) == IF n <= 0 THEN 0 ELSE Max(Abs(f[n]), MaxAbsTo(f, n - 1))

(* ------------------------------------------------------------------ *)
(* Constants of AudioAnalyzer.h                                        *)
(* ------------------------------------------------------------------ *)

\* 1 << kWaveformFFTOrder, 1 << kSpectrumFFTOrder
kWaveformFFTSize == 2 ^ kWaveformFFTOrder
kSpectrumFFTSize == 2 ^ kSpectrumFFTOrder

kDefaultSmoothing == (8 * Unit) \div 10
kFrequencyRangeStart == (5 * Unit) \div 100
kFrequencyRangeEnd == (40 * Unit) \div 100
kVolumeSmoothingFactor == (2 * Unit) \div 10
kMinDb == -100 * Unit
kMaxDb == -10 * Unit

Modes == {"Waveform", "Spectrum"}

(* ------------------------------------------------------------------ *)
(* State                                                               *)
(* ------------------------------------------------------------------ *)

VARIABLES
    fftOrder, fftSize,          \* int fftOrder, fftSize
    fftData,                    \* std::vector<float> fftData, 2 * fftSize floats
    fifo, fifoIndex,            \* the accumulation buffer and its write cursor (0-based)
    smoothedFrequencyData,      \* the published spectrum, fftSize / 2 floats
    smoothedRMS, peakLevel,     \* std::atomic<float>
    smoothingTimeConstant,      \* std::atomic<float>
    sensitivity,                \* std::atomic<float>
    dataLock,                   \* juce::SpinLock: "free", or the thread that holds it
    monoMixBuffer,              \* std::vector<float> monoMixBuffer
    audio,                      \* the audio thread: its place in the code and its locals
    ui,                         \* the query (UI) thread: its place in the code and its locals
    crashed,                    \* the process has been killed by a memory fault
    obs,                        \* what the run has done so far (history, read by the properties only)
    calls,                      \* calls made so far, per kind
    live                        \* a LiveWaveformVisualizer: its data members

vars == <<fftOrder, fftSize, fftData, fifo, fifoIndex, smoothedFrequencyData,
          smoothedRMS, peakLevel, smoothingTimeConstant, sensitivity, dataLock,
          monoMixBuffer, audio, ui, crashed, obs, calls, live>>

config == <<fftOrder, fftSize, monoMixBuffer>>
auState == <<fftData, fifo, fifoIndex>>
levels == <<smoothedRMS, peakLevel>>
knobs == <<smoothingTimeConstant, sensitivity>>

Zeros(n) == [k \in 1..n |-> 0]

\* int historySize = 150, and the lower limit 0.05f of a history entry
kDefaultHistorySize == 150
kMinLevel == Unit \div 20

\* what a member holds after undefined behaviour has written over it: a value
\* this model says nothing about
Undefined == "undefined"

\* LiveWaveformVisualizer after construction. audioAnalyzer = a non-null pointer
\* has been set; ticks = timer callbacks that got past the first test;
\* erasedEmpty = history.erase(history.begin()) has been called on an empty
\* history; undefined = that call has returned, and the members hold whatever
\* it left; lastTick = the history before and after the last callback that got
\* past the first test, and the historySize it found (ticks, erasedEmpty and
\* lastTick are read by the properties only).
LiveFresh ==
    [audioAnalyzer |-> FALSE, history |-> <<>>, active |-> FALSE,
     historySize |-> kDefaultHistorySize, sensitivity |-> Unit,
     undefined |-> FALSE, ticks |-> 0, erasedEmpty |-> FALSE,
     lastTick |-> [before |-> <<>>, after |-> <<>>, historySize |-> 0]]

AudioIdle ==
    [pc |-> "idle", op |-> "none", samples |-> <<>>, numSamples |-> 0, i |-> 0,
     bin |-> 0, smooth |-> 0, channels |-> <<>>, samplesToProcess |-> 0]

\* bandRanges: the <<start, end>> of each band's inner loop, as getFrequencyBands
\* computed them; thrown: the call was left by an exception
UiIdle ==
    [pc |-> "idle", op |-> "none", outData |-> <<>>, mirrored |-> <<>>, outBands |-> <<>>,
     level |-> 0, sens |-> 0, numBands |-> 0, loPass |-> 0, hiPass |-> 0,
     bandRanges |-> <<>>, thrown |-> FALSE, allocs |-> <<>>, capacity |-> 0]

\* obs: ingested = samples appended to the fifo; transforms = performFFT runs begun;
\* history = the published spectrum as it stood after each whole update;
\* pushed = the sum of the positive numSamples pushSamples was called with;
\* oob = an index outside a buffer has been used; entry = the state the last call
\* of pushSamples started from; seen = the published array as the query in
\* progress (or the last one) read it, seenGen = Len(history) at that read;
\* oobRead = a query has read the published array at an index outside it;
\* divZero = a query has divided by zero.
\* asked = the argument of the last call of each setter (before any call, the
\* value the analyzer starts with); targets and smooths = for each whole update,
\* the scaled value of each bin and the smoothing constant it was smoothed with;
\* zeroPushed = the samples of the all-zero blocks pushed since the last block
\* that held a non-zero sample; prevSeen and prevGen = seen and seenGen of the
\* query before the last one; arrived = the samples appended to the fifo, in
\* order; frames = the fifo as each performFFT copied it; prevCall = the query
\* thread's record of the call before the one in progress (or the last one), as
\* it returned; stamp and prevStamp = how far the run had got when the query in
\* progress (or the last one), and the one before it, began; track = the run
\* keeps prevCall, stamp and prevStamp; mode = the AnalysisMode the constructor
\* was called with, in the runs that start from the constructor.
ObsInit(spectrum, sens) ==
    [ingested |-> 0, pushed |-> 0, transforms |-> 0, history |-> <<spectrum>>,
     oob |-> FALSE, entry |-> <<>>, seen |-> <<>>, seenGen |-> 0,
     oobRead |-> FALSE, divZero |-> FALSE,
     asked |-> [smoothing |-> kDefaultSmoothing, sensitivity |-> sens],
     targets |-> <<>>, smooths |-> <<>>, zeroPushed |-> 0,
     prevSeen |-> <<>>, prevGen |-> 0,
     arrived |-> <<>>, frames |-> <<>>,
     prevCall |-> UiIdle, stamp |-> <<>>, prevStamp |-> <<>>, track |-> FALSE,
     mode |-> "unrecorded"]

\* an analyzer of the given frame order between calls, with the given published
\* spectrum and sensitivity
AnalyzerFields(order, size, spectrum, sens) ==
    /\ fftOrder = order
    /\ fftSize = size
    /\ fftData = Zeros(size * 2)
    /\ fifo = Zeros(size)
    /\ fifoIndex = 0
    /\ smoothedFrequencyData = spectrum
    /\ smoothedRMS = 0
    /\ peakLevel = 0
    /\ smoothingTimeConstant = kDefaultSmoothing
    /\ sensitivity = sens
    /\ dataLock = "free"
    /\ monoMixBuffer = <<>>
    /\ audio = AudioIdle
    /\ ui = UiIdle
    /\ crashed = FALSE
    /\ calls = [audio |-> 0, all |-> 0]
    /\ live = LiveFresh

Analyzer(order, size, spectrum, sens) ==
    /\ AnalyzerFields(order, size, spectrum, sens)
    /\ obs = ObsInit(spectrum, sens)

\* a constructor that gives the published array a bin for every sample of the frame
ConstructWithWholeFrame(mode, waveformOrder, spectrumOrder) ==
    LET order == IF mode = "Spectrum" THEN spectrumOrder ELSE waveformOrder
        size == 2 ^ order
    IN  /\ AnalyzerFields(order, size, Zeros(size), Unit)
        /\ obs = [ObsInit(Zeros(size), Unit) EXCEPT !.mode = mode]

\* AudioAnalyzer::AudioAnalyzer(AnalysisMode mode), for given values of
\* kWaveformFFTOrder and kSpectrumFFTOrder: the frame order of the mode, the
\* frame size 1 << order, fftData of 2 * size, fifo of size and
\* smoothedFrequencyData of size / 2 zeros
ConstructWith(mode, waveformOrder, spectrumOrder) ==
    LET order == IF mode = "Spectrum" THEN spectrumOrder ELSE waveformOrder
        size == 2 ^ order
    IN  /\ AnalyzerFields(order, size, Zeros(size \div 2), Unit)
        /\ obs = [ObsInit(Zeros(size \div 2), Unit) EXCEPT !.mode = mode]

\* the constructor with the frame orders of this model
Construct(mode) == ConstructWith(mode, kWaveformFFTOrder, kSpectrumFFTOrder)

Init == \E mode \in Modes : Construct(mode)

\* int getFFTSize() const, int getFrequencyBinCount() const
getFFTSize == fftSize
getFrequencyBinCount == fftSize \div 2

(* ------------------------------------------------------------------ *)
(* Static utility functions                                            *)
(* ------------------------------------------------------------------ *)

\* AudioAnalyzer::calculateRMS(samples, numSamples)
calculateRMS(samples, numSamples) ==
    IF numSamples <= 0 THEN 0
    ELSE LET sq == [k \in 1..numSamples |-> MulF(samples[k], samples[k])]
         IN  SqrtF(RDiv(SumTo(sq, numSamples), numSamples))

\* a smoothing that weighs the target with 1 - factor
smoothValueSwapped(current, target, factor) == current + MulF(target - current, Unit - factor)

\* AudioAnalyzer::smoothValue(current, target, factor)
smoothValue(current, target, factor) == current + MulF(target - current, factor)

\* a peak loop without std::abs
BlockPeakSigned(samples, numSamples) ==
    MaxAbsTo([k \in 1..numSamples |-> Max(samples[k], 0)], numSamples)

\* the peak loop of pushSamples: max over the block of std::abs(samples[i]), from 0.0f
BlockPeak(samples, numSamples) == MaxAbsTo(samples, numSamples)

(* ------------------------------------------------------------------ *)
(* Spectral transform                                                  *)
(* ------------------------------------------------------------------ *)

\* the Hann window of performFFT: 0.5f * (1.0f - cos(2 pi i / (fftSize - 1))), i 0-based
HannWindow(i, size) == RDiv(Unit - Cos2Pi(i, size - 1), 2)

\* juce::dsp::FFT::performFrequencyOnlyForwardTransform: the magnitude of bin k
\* (0-based) of the discrete Fourier transform of x[1..size]
DftMagnitude(x, size, k) ==
    LET re == SumTo([n \in 1..size |-> x[n] * Cos2Pi(k * (n - 1), size)], size)
        im == SumTo([n \in 1..size |-> x[n] * Sin2Pi(k * (n - 1), size)], size)
        r == RDiv(re, Unit)
        m == RDiv(im, Unit)
    IN  ISqrt(r * r + m * m)

\* performFFT up to the transform: copy the fifo, zero the upper half, window,
\* transform; the result is the new fftData
TransformedFrame(frame, size) ==
    LET windowed == [n \in 1..size |-> MulF(frame[n], HannWindow(n - 1, size))]
    IN  [k \in 1..(2 * size) |-> IF k <= size THEN DftMagnitude(windowed, size, k - 1) ELSE 0]

\* a scaled value without the factor 2
ScaledValueHalved(magnitude, size) == jlimit(0, Unit, RDiv(magnitude, size))

\* updateSmoothedData, lines 323-330: magnitude / fftSize, times 2, clamped
ScaledValue(magnitude, size) ==
    LET normalizedMagnitude == RDiv(magnitude, size)
    IN  jlimit(0, Unit, normalizedMagnitude * 2)

\* a smoothing with the two weights the other way round
SmoothedBinSwapped(old, magnitude, size, smooth) ==
    MulF(old, Unit - smooth) + MulF(ScaledValue(magnitude, size), smooth)

\* one bin of updateSmoothedData, lines 323-334: the scaled value, smoothed
SmoothedBin(old, magnitude, size, smooth) ==
    MulF(old, smooth) + MulF(ScaledValue(magnitude, size), Unit - smooth)

(* ------------------------------------------------------------------ *)
(* Audio thread                                                        *)
(* ------------------------------------------------------------------ *)

\* a lock that lets a thread in while the other one holds it
EnterUnguarded(lock) == TRUE

\* juce::SpinLock::ScopedLockType: enter() spins until the lock is free
TryEnter(lock) == lock = "free"

\* what pushSamples may change, as the properties compare it
Ingested == <<smoothedRMS, peakLevel, fifoIndex, fifo, smoothedFrequencyData>>

\* the locals of pushSamples(samples, numSamples) at its first statement
EnterPushSamples(op, samples, numSamples) ==
    [AudioIdle EXCEPT !.pc = "rms", !.op = op, !.samples = samples, !.numSamples = numSamples]

\* a test of the cursor that lets it pass the frame size
FrameFullLate(index, size) == index > size

\* pushSamples, line 68: the test of the cursor after a sample is stored
FrameFull(index, size) == index >= size

\* a cursor left where it is after the transform
CursorKept(index) == index

\* pushSamples, line 71: fifoIndex = 0
CursorAfterFrame(index) == 0

\* the state pushSamples starts from is remembered, and its count added up
Entered(o, samples, numSamples) ==
    [o EXCEPT !.entry = Ingested, !.pushed = @ + Max(numSamples, 0),
              !.zeroPushed = IF \A k \in 1..numSamples : samples[k] = 0
                             THEN @ + Max(numSamples, 0) ELSE 0]

\* where pushSamples goes after the sample at index i (0-based) is done
AfterSample(a) ==
    IF a.i + 1 < a.numSamples THEN [a EXCEPT !.pc = "fill", !.i = a.i + 1]
                              ELSE [AudioIdle EXCEPT !.op = a.op, !.numSamples = a.numSamples,
                                                     !.channels = a.channels]

\* a caller on the audio thread calls pushSamples(samples, numSamples)
PushSamplesCall(inputs) ==
    /\ ~crashed
    /\ audio.pc = "idle"
    /\ calls.audio < MaxAudioCalls /\ calls.all < MaxCalls
    /\ \E in \in inputs :
          /\ audio' = EnterPushSamples("pushSamples", in.samples, in.numSamples)
          /\ obs' = Entered(obs, in.samples, in.numSamples)
    /\ calls' = [calls EXCEPT !.audio = @ + 1, !.all = @ + 1]
    /\ UNCHANGED <<live, config, auState, smoothedFrequencyData, levels, knobs, dataLock, ui, crashed>>

\* pushSamples, lines 47-53: the block's RMS, smoothed into smoothedRMS
CalcRMS ==
    /\ ~crashed
    /\ audio.pc = "rms"
    /\ LET rms == calculateRMS(audio.samples, audio.numSamples)
       IN  smoothedRMS' = smoothValue(smoothedRMS, rms, kVolumeSmoothingFactor)
    /\ audio' = [audio EXCEPT !.pc = "peak"]
    /\ UNCHANGED <<live, config, auState, smoothedFrequencyData, peakLevel, knobs, dataLock, ui,
                   crashed, obs, calls>>

\* pushSamples, lines 55-61: the block's peak, stored as it is
TrackPeak ==
    /\ ~crashed
    /\ audio.pc = "peak"
    /\ peakLevel' = BlockPeak(audio.samples, audio.numSamples)
    /\ audio' = IF 0 < audio.numSamples
                THEN [audio EXCEPT !.pc = "fill", !.i = 0]
                ELSE [AudioIdle EXCEPT !.op = audio.op, !.numSamples = audio.numSamples,
                                       !.channels = audio.channels]
    /\ UNCHANGED <<live, config, auState, smoothedFrequencyData, smoothedRMS, knobs, dataLock, ui,
                   crashed, obs, calls>>

\* a store at the cursor after it has moved: fifo[++fifoIndex] = sample
StoreSampleAfterIncrement(buffer, index, sample) ==
    IF index + 2 \in DOMAIN buffer THEN [buffer EXCEPT ![index + 2] = sample] ELSE buffer

\* pushSamples, line 66: fifo[fifoIndex++] = samples[i], the store (index 0-based)
StoreSample(buffer, index, sample) == [buffer EXCEPT ![index + 1] = sample]

\* pushSamples, lines 64-68: fifo[fifoIndex++] = samples[i], then the test of the cursor
FillFifo ==
    /\ ~crashed
    /\ audio.pc = "fill"
    /\ fifo' = StoreSample(fifo, fifoIndex, audio.samples[audio.i + 1])
    /\ fifoIndex' = fifoIndex + 1
    /\ audio' = IF FrameFull(fifoIndex', fftSize) THEN [audio EXCEPT !.pc = "performFFT"]
                                        ELSE AfterSample(audio)
    /\ obs' = [obs EXCEPT !.ingested = @ + 1,
                          !.arrived = Append(@, audio.samples[audio.i + 1])]
    /\ UNCHANGED <<live, config, fftData, smoothedFrequencyData, levels, knobs, dataLock, ui,
                   crashed, calls>>

\* performFFT, lines 291-306: copy, zero-pad, window, transform
PerformFFT ==
    /\ ~crashed
    /\ audio.pc = "performFFT"
    /\ fftData' = TransformedFrame(fifo, fftSize)
    /\ audio' = [audio EXCEPT !.pc = "update_lock"]
    /\ obs' = [obs EXCEPT !.transforms = @ + 1, !.frames = Append(@, fifo)]
    /\ UNCHANGED <<live, config, fifo, fifoIndex, smoothedFrequencyData, levels, knobs, dataLock,
                   ui, crashed, calls>>

\* an update that goes on to the bins without taking dataLock
UpdateLockSkipped ==
    /\ ~crashed
    /\ audio.pc = "update_lock"
    /\ audio' = [audio EXCEPT !.pc = "update_bin", !.bin = 0, !.smooth = smoothingTimeConstant]
    /\ UNCHANGED <<live, config, auState, smoothedFrequencyData, levels, knobs, dataLock, ui, crashed,
                   obs, calls>>

\* updateSmoothedData, lines 314-317: take dataLock, load the smoothing constant
UpdateLock ==
    /\ ~crashed
    /\ audio.pc = "update_lock"
    /\ TryEnter(dataLock)
    /\ dataLock' = "audio"
    /\ audio' = [audio EXCEPT !.pc = "update_bin", !.bin = 0, !.smooth = smoothingTimeConstant]
    /\ UNCHANGED <<live, config, auState, smoothedFrequencyData, levels, knobs, ui, crashed, obs, calls>>

\* a pass of the loop that loads the smoothing constant anew
UpdateBinReloading ==
    /\ ~crashed
    /\ audio.pc = "update_bin"
    /\ LET numBins == fftSize \div 2
           k == audio.bin + 1
       IN  /\ smoothedFrequencyData' =
                 [smoothedFrequencyData EXCEPT
                    ![k] = SmoothedBin(smoothedFrequencyData[k], fftData[k], fftSize,
                                       smoothingTimeConstant)]
           /\ audio' = IF audio.bin + 1 < numBins THEN [audio EXCEPT !.bin = @ + 1]
                                                  ELSE [audio EXCEPT !.pc = "update_unlock"]
    /\ UNCHANGED <<live, config, auState, levels, knobs, dataLock, ui, crashed, obs, calls>>

\* updateSmoothedData, lines 319-335: one pass of the loop over the bins
UpdateBin ==
    /\ ~crashed
    /\ audio.pc = "update_bin"
    /\ LET numBins == fftSize \div 2
           k == audio.bin + 1
       IN  /\ smoothedFrequencyData' =
                 [smoothedFrequencyData EXCEPT
                    ![k] = SmoothedBin(smoothedFrequencyData[k], fftData[k], fftSize, audio.smooth)]
           /\ audio' = IF audio.bin + 1 < numBins THEN [audio EXCEPT !.bin = @ + 1]
                                                  ELSE [audio EXCEPT !.pc = "update_unlock"]
    /\ UNCHANGED <<live, config, auState, levels, knobs, dataLock, ui, crashed, obs, calls>>

\* updateSmoothedData, line 336: the scoped lock is released on return
UpdateUnlock ==
    /\ ~crashed
    /\ audio.pc = "update_unlock"
    /\ dataLock' = "free"
    /\ audio' = [audio EXCEPT !.pc = "reset"]
    /\ obs' = [obs EXCEPT !.history = Append(@, smoothedFrequencyData),
                          !.targets = Append(@, [k \in 1..(fftSize \div 2) |->
                                                   ScaledValue(fftData[k], fftSize)]),
                          !.smooths = Append(@, audio.smooth)]
    /\ UNCHANGED <<live, config, auState, smoothedFrequencyData, levels, knobs, ui, crashed, calls>>

\* pushSamples, line 71: fifoIndex = 0, and on to the next sample
ResetIndex ==
    /\ ~crashed
    /\ audio.pc = "reset"
    /\ fifoIndex' = CursorAfterFrame(fifoIndex)
    /\ audio' = AfterSample(audio)
    /\ UNCHANGED <<live, config, fftData, fifo, smoothedFrequencyData, levels, knobs, dataLock, ui,
                   crashed, obs, calls>>

\* the mono mixdown of processBlock, lines 96-112: sample i is the sum over the
\* channels of channelData[i], times 1.0f / numChannels
MonoMix(channels, n) ==
    LET numChannels == Len(channels)
        scale == RDiv(Unit * Unit, numChannels * Unit)
    IN  [k \in 1..n |-> MulF(SumTo([ch \in 1..numChannels |-> channels[ch][k]], numChannels), scale)]

\* a caller on the audio thread calls processBlock(buffer), lines 78-93
ProcessBlockCall(buffers) ==
    /\ ~crashed
    /\ audio.pc = "idle"
    /\ calls.audio < MaxAudioCalls /\ calls.all < MaxCalls
    /\ \E buffer \in buffers :
          LET numChannels == Len(buffer.channels)
              numSamples == buffer.numSamples
          IN  IF numChannels = 0 \/ numSamples = 0
              THEN audio' = [AudioIdle EXCEPT !.op = "processBlock"] /\ obs' = obs
              ELSE IF numChannels = 1
              THEN /\ audio' = EnterPushSamples("processBlock", buffer.channels[1], numSamples)
                   /\ obs' = Entered(obs, buffer.channels[1], numSamples)
              ELSE /\ audio' = [AudioIdle EXCEPT !.pc = "mix", !.op = "processBlock",
                                                 !.channels = buffer.channels,
                                                 !.numSamples = numSamples,
                                                 !.samplesToProcess = Min(numSamples, kMaxBufferSize)]
                   /\ obs' = obs
    /\ calls' = [calls EXCEPT !.audio = @ + 1, !.all = @ + 1]
    /\ UNCHANGED <<live, config, auState, smoothedFrequencyData, levels, knobs, dataLock, ui, crashed>>

\* processBlock, lines 96-114: std::fill and the two loops write and read
\* monoMixBuffer[0 .. samplesToProcess - 1]. Past the end of the vector that is
\* undefined: the process faults, or the writes land in memory that is not the
\* vector's and the mix is read back from there.
MixDown ==
    /\ ~crashed
    /\ audio.pc = "mix"
    /\ LET n == audio.samplesToProcess
           mix == MonoMix(audio.channels, n)
       IN  IF n <= Len(monoMixBuffer)
           THEN /\ monoMixBuffer' = [k \in 1..Len(monoMixBuffer) |->
                                       IF k <= n THEN mix[k] ELSE monoMixBuffer[k]]
                /\ audio' = [EnterPushSamples("processBlock", mix, n)
                                EXCEPT !.channels = audio.channels]
                /\ obs' = Entered(obs, mix, n)
                /\ crashed' = FALSE
           ELSE /\ monoMixBuffer' = monoMixBuffer
                /\ \E outcome \in {"fault", "stray"} :
                      /\ crashed' = (outcome = "fault")
                      /\ audio' = IF outcome = "fault" THEN audio
                                  ELSE [EnterPushSamples("processBlock", mix, n)
                                        EXCEPT !.channels = audio.channels]
                      /\ obs' = IF outcome = "fault" THEN [obs EXCEPT !.oob = TRUE]
                                 ELSE [Entered(obs, mix, n) EXCEPT !.oob = TRUE]
    /\ UNCHANGED <<live, fftOrder, fftSize, auState, smoothedFrequencyData, levels, knobs, dataLock,
                   ui, calls>>

\* the steps of pushSamples
PushStep ==
    \/ CalcRMS
    \/ TrackPeak
    \/ FillFifo
    \/ PerformFFT
    \/ UpdateLock
    \/ UpdateBin
    \/ UpdateUnlock
    \/ ResetIndex

AudioStep ==
    \/ PushStep
    \/ MixDown

(* ------------------------------------------------------------------ *)
(* Query (UI) thread                                                   *)
(* ------------------------------------------------------------------ *)

\* a sensitivity loop without the clamp
ScaleWithoutClamp(values, sens) == [k \in DOMAIN values |-> MulF(values[k], sens)]

\* the sensitivity loops of getFrequencyData and getFrequencyBands, lines 128-135
\* and 226-233: untouched when sens is 1.0f, else jlimit(0, 1, value * sens)
ApplySensitivity(values, sens) ==
    IF sens # Unit THEN [k \in DOMAIN values |-> jlimit(0, Unit, MulF(values[k], sens))]
                   ELSE values

\* the index arithmetic of getMirroredFrequencyData, lines 145-173: the 0-based
\* indices of freqData pushed to outData, in order
RECURSIVE MirrorLeft(_, _, _)
MirrorLeft(i, startFreq, totalBins) ==
    IF i < 0 THEN <<>>
    ELSE (IF startFreq + i < totalBins THEN <<startFreq + i>> ELSE <<>>)
         \o MirrorLeft(i - 1, startFreq, totalBins)

RECURSIVE MirrorUpperHalf(_, _, _, _)
\* a second loop that goes on into the upper half of the range
MirrorUpperHalf(i, halfLength, startFreq, totalBins) ==
    IF i >= halfLength THEN <<>>
    ELSE (IF startFreq + halfLength + i < totalBins THEN <<startFreq + halfLength + i>> ELSE <<>>)
         \o MirrorUpperHalf(i + 1, halfLength, startFreq, totalBins)

RECURSIVE MirrorRight(_, _, _, _)
MirrorRight(i, halfLength, startFreq, totalBins) ==
    IF i >= halfLength THEN <<>>
    ELSE (IF startFreq + i < totalBins THEN <<startFreq + i>> ELSE <<>>)
         \o MirrorRight(i + 1, halfLength, startFreq, totalBins)

\* the two loops running over the whole sub-range, not over half of it
MirroredIndicesWholeRange(totalBins) ==
    LET startFreq == (totalBins * kFrequencyRangeStart) \div Unit
        endFreq == (totalBins * kFrequencyRangeEnd) \div Unit
        rangeSize == endFreq - startFreq
    IN  MirrorLeft(rangeSize - 1, startFreq, totalBins)
        \o MirrorRight(0, rangeSize, startFreq, totalBins)

MirroredIndices(totalBins) ==
    LET startFreq == (totalBins * kFrequencyRangeStart) \div Unit
        endFreq == (totalBins * kFrequencyRangeEnd) \div Unit
        rangeSize == endFreq - startFreq
        halfLength == rangeSize \div 2
    IN  MirrorLeft(halfLength - 1, startFreq, totalBins)
        \o MirrorRight(0, halfLength, startFreq, totalBins)

\* the rangeSize that line 153 reserves
ReservedSize(totalBins) ==
    (totalBins * kFrequencyRangeEnd) \div Unit - (totalBins * kFrequencyRangeStart) \div Unit

\* getMirroredFrequencyData after its call of getFrequencyData
Mirrored(freqData) ==
    LET idx == MirroredIndices(Len(freqData))
    IN  [k \in 1..Len(idx) |-> freqData[idx[k] + 1]]

\* log2 of y / 2^14 for y in [2^14, 2^15), in units of 2^-12, by repeated squaring
RECURSIVE Log2Frac(_, _, _)
Log2Frac(y, bit, acc) ==
    IF bit < 1 THEN acc
    ELSE LET sq == (y * y) \div 16384
         IN  IF sq >= 32768 THEN Log2Frac(sq \div 2, bit \div 2, acc + bit)
                            ELSE Log2Frac(sq, bit \div 2, acc)

RECURSIVE Log2Int(_)
\* floor(log2(m)) for m >= 1
Log2Int(m) == IF m < 2 THEN 0 ELSE 1 + Log2Int(m \div 2)

\* 20.0f * std::log10(magnitude) for a fixed-point magnitude > 0, scaled by Unit:
\* 20 log10(m / Unit) = 6.0206 * (log2 m - log2 Unit)
DbOf(magnitude) ==
    LET Lg(m) == LET e == Log2Int(m)
                 IN  e * 4096 + Log2Frac((m * 16384) \div (2 ^ e), 2048, 0)
    IN  RDiv(6021 * (Lg(magnitude) - Lg(Unit)), 4096)

\* AudioAnalyzer::normalizeDb(value)
normalizeDb(value) ==
    LET clamped == jlimit(kMinDb, kMaxDb, value)
        normalized == Unit - RDiv(clamped * (-1), 100)
    IN  SqrtF(normalized)

\* int / int of C++ for a divisor above 0: the quotient is truncated toward zero
TruncDiv(a, b) == IF a >= 0 THEN a \div b ELSE -((-a) \div b)

\* a chunk size rounded down
ChunkSizeFloor(numBands, loPass, hiPass) == TruncDiv(hiPass - loPass, numBands)

\* getFrequencyBands, lines 196-197: sliceLength and chunkSize, for numBands > 0
ChunkSize(numBands, loPass, hiPass) ==
    LET sliceLength == hiPass - loPass
    IN  TruncDiv(sliceLength + numBands - 1, numBands)

\* a band whose inner loop runs to end inclusive
BandRangeInclusive(i, chunkSize, loPass, hiPass) ==
    <<loPass + i * chunkSize, Min(loPass + (i + 1) * chunkSize, hiPass) + 1>>

\* getFrequencyBands, lines 204-205: start and end of band i (0-based)
BandRange(i, chunkSize, loPass, hiPass) ==
    <<loPass + i * chunkSize, Min(loPass + (i + 1) * chunkSize, hiPass)>>

\* getFrequencyBands, lines 207-209: the indices j of [start, end) that pass the
\* test j < smoothedFrequencyData.size() and are read
BinsRead(range, size) == {j \in range[1]..(range[2] - 1) : j < size}

\* getFrequencyBands, lines 214-217: one bin's term of the sum
NormalizedBin(magnitude) == normalizeDb(IF magnitude > 0 THEN DbOf(magnitude) ELSE kMinDb)

\* the largest term of the sum: normalizeDb clamps to kMaxDb
kMaxTerm == normalizeDb(kMaxDb)

\* getFrequencyBands, lines 199-222: band i (0-based) of numBands over
\* [loPass, hiPass); straySum is what the terms of the band's reads below
\* index 0 add up to
BandValue(data, straySum, i, numBands, loPass, hiPass) ==
    LET range == BandRange(i, ChunkSize(numBands, loPass, hiPass), loPass, hiPass)
        js == BinsRead(range, Len(data))
        inside == {j \in js : j >= 0}
        term == [j \in inside |-> NormalizedBin(data[j + 1])]
        RECURSIVE Sum(_)
        Sum(S) == IF S = {} THEN 0
                  ELSE LET j == CHOOSE x \in S : TRUE IN term[j] + Sum(S \ {j})
        count == Cardinality(js)
    IN  IF count > 0 THEN RDiv(Sum(inside) + straySum, count) ELSE 0

\* how far the run has got: the calls made so far, and the audio thread's place
\* in its call
Stamp == <<calls.all, audio>>

\* A vector is allocated anew when it is given a length above its capacity.
\* allocs lists, for each allocation of the call in progress, whether the query
\* thread held dataLock when it was made.
Grown(allocs, capacity, size) ==
    IF size > capacity THEN Append(allocs, dataLock = "ui") ELSE allocs

\* the capacities of the vector a caller hands in: a fresh vector, and
\* vectors with room for every bin and for one more
EmptyVector == {0}
VectorCapacities == {0, fftSize \div 2, fftSize \div 2 + 1}

\* the UI thread calls a getter, handing in a vector of one of the capacities
QueryCall(queries, capacities) ==
    /\ ~crashed
    /\ ui.pc = "idle"
    /\ calls.all < MaxCalls
    /\ \E q \in queries, c \in capacities :
          ui' = IF q.op = "getFrequencyBands"
                THEN IF q.numBands < 0
                     \* line 192: resize to a negative int, converted to size_t, is
                     \* above max_size() and throws std::length_error
                     THEN [UiIdle EXCEPT !.op = q.op, !.numBands = q.numBands,
                                         !.loPass = q.loPass, !.hiPass = q.hiPass,
                                         !.thrown = TRUE, !.capacity = c]
                     ELSE [UiIdle EXCEPT !.pc = "gfb_lock", !.op = q.op,
                                         !.outBands = Zeros(q.numBands),       \* line 192
                                         !.allocs = Grown(@, c, q.numBands),
                                         !.capacity = c,
                                         !.numBands = q.numBands, !.loPass = q.loPass,
                                         !.hiPass = q.hiPass]
                ELSE IF q.op \in {"getRMSLevel", "getPeakLevel"}
                THEN [UiIdle EXCEPT !.pc = "level", !.op = q.op]
                ELSE [UiIdle EXCEPT !.pc = "gfd_lock", !.op = q.op, !.capacity = c]
    /\ calls' = [calls EXCEPT !.all = @ + 1]
    /\ obs' = IF obs.track
              THEN [obs EXCEPT !.prevCall = ui, !.prevStamp = obs.stamp, !.stamp = Stamp]
              ELSE obs
    /\ UNCHANGED <<live, config, auState, smoothedFrequencyData, levels, knobs, dataLock, audio,
                   crashed>>

\* getRMSLevel / getPeakLevel, lines 176-184: one relaxed load
LoadLevel ==
    /\ ~crashed
    /\ ui.pc = "level"
    /\ ui' = [ui EXCEPT !.pc = "idle",
                        !.level = IF ui.op = "getRMSLevel" THEN smoothedRMS ELSE peakLevel]
    /\ UNCHANGED <<live, config, auState, smoothedFrequencyData, levels, knobs, dataLock, audio,
                   crashed, obs, calls>>

\* getFrequencyData, line 123: take dataLock
GfdLock ==
    /\ ~crashed
    /\ ui.pc = "gfd_lock"
    /\ TryEnter(dataLock)
    /\ dataLock' = "ui"
    /\ ui' = [ui EXCEPT !.pc = "gfd_copy"]
    /\ UNCHANGED <<live, config, auState, smoothedFrequencyData, levels, knobs, audio, crashed,
                   obs, calls>>

\* getFrequencyData, line 125: outData = smoothedFrequencyData
GfdCopy ==
    /\ ~crashed
    /\ ui.pc = "gfd_copy"
    \* getMirroredFrequencyData hands in its local freqData (line 141), empty
    /\ ui' = [ui EXCEPT !.pc = "gfd_sens", !.outData = smoothedFrequencyData,
                        !.allocs = Grown(@, IF ui.op = "getMirroredFrequencyData"
                                            THEN 0 ELSE ui.capacity,
                                         Len(smoothedFrequencyData))]
    /\ obs' = [obs EXCEPT !.seen = smoothedFrequencyData, !.seenGen = Len(obs.history),
                          !.prevSeen = obs.seen, !.prevGen = obs.seenGen]
    /\ UNCHANGED <<live, config, auState, smoothedFrequencyData, levels, knobs, dataLock, audio,
                   crashed, calls>>

\* a scaling made in the published array, not in the caller's copy
GfdSensInPlace ==
    /\ ~crashed
    /\ ui.pc = "gfd_sens"
    /\ smoothedFrequencyData' = ApplySensitivity(smoothedFrequencyData, sensitivity)
    /\ ui' = [ui EXCEPT !.pc = "gfd_unlock", !.sens = sensitivity,
                        !.outData = smoothedFrequencyData']
    /\ UNCHANGED <<live, config, auState, levels, knobs, dataLock, audio, crashed, obs, calls>>

\* getFrequencyData, lines 128-135: load the sensitivity, scale outData
GfdSens ==
    /\ ~crashed
    /\ ui.pc = "gfd_sens"
    /\ ui' = [ui EXCEPT !.pc = "gfd_unlock", !.sens = sensitivity,
                        !.outData = ApplySensitivity(@, sensitivity)]
    /\ UNCHANGED <<live, config, auState, smoothedFrequencyData, levels, knobs, dataLock, audio,
                   crashed, obs, calls>>

\* getFrequencyData, line 136: the scoped lock is released on return, to the
\* caller or to getMirroredFrequencyData (line 142)
\* a return from getFrequencyData that leaves the lock taken
GfdUnlockKept ==
    /\ ~crashed
    /\ ui.pc = "gfd_unlock"
    /\ ui' = [ui EXCEPT !.pc = IF ui.op = "getMirroredFrequencyData" THEN "mirror" ELSE "idle"]
    /\ UNCHANGED <<live, config, auState, smoothedFrequencyData, levels, knobs, dataLock, audio,
                   crashed, obs, calls>>

GfdUnlock ==
    /\ ~crashed
    /\ ui.pc = "gfd_unlock"
    /\ dataLock' = "free"
    /\ ui' = [ui EXCEPT !.pc = IF ui.op = "getMirroredFrequencyData" THEN "mirror" ELSE "idle"]
    /\ UNCHANGED <<live, config, auState, smoothedFrequencyData, levels, knobs, audio, crashed,
                   obs, calls>>

\* getMirroredFrequencyData, lines 145-173
Mirror ==
    /\ ~crashed
    /\ ui.pc = "mirror"
    /\ ui' = [ui EXCEPT !.pc = "idle", !.mirrored = Mirrored(ui.outData),
                        !.allocs = Grown(@, ui.capacity,                        \* line 153
                                         ReservedSize(Len(ui.outData)))]
    /\ UNCHANGED <<live, config, auState, smoothedFrequencyData, levels, knobs, dataLock, audio,
                   crashed, obs, calls>>

\* getFrequencyBands, line 194: take dataLock
GfbLock ==
    /\ ~crashed
    /\ ui.pc = "gfb_lock"
    /\ TryEnter(dataLock)
    /\ dataLock' = "ui"
    /\ ui' = [ui EXCEPT !.pc = "gfb_bands"]
    /\ UNCHANGED <<live, config, auState, smoothedFrequencyData, levels, knobs, audio, crashed,
                   obs, calls>>

\* What the reads below the published array may add to the sums. Each such
\* read finds some float, any float, and each read its own: its term (lines
\* 215-217) is 0 for a float that is not above 0, and normalizeDb of its level
\* otherwise, any value from 0 to kMaxTerm. For every band in turn, the sums
\* that as many terms as the band has reads below index 0 can make.
RECURSIVE StraySums(_, _, _)
StraySums(ranges, size, k) ==
    IF k = 0 THEN {<<>>}
    ELSE LET reads == Cardinality({j \in BinsRead(ranges[k], size) : j < 0})
         IN  {Append(s, v) : s \in StraySums(ranges, size, k - 1),
                             v \in 0..(reads * kMaxTerm)}

\* getFrequencyBands, lines 196-223: the bands, read from smoothedFrequencyData in
\* place. With numBands = 0 line 197 divides an int by zero, and with a band that
\* starts below 0 line 214 reads before the array (the test of line 209 only
\* looks at the upper end): both are undefined, the process faults or goes on
\* with whatever was there.
GfbBands ==
    /\ ~crashed
    /\ ui.pc = "gfb_bands"
    /\ LET size == Len(smoothedFrequencyData)
           ranges == [k \in 1..ui.numBands |->
                        BandRange(k - 1, ChunkSize(ui.numBands, ui.loPass, ui.hiPass),
                                  ui.loPass, ui.hiPass)]
           below == \E k \in 1..ui.numBands : \E j \in BinsRead(ranges[k], size) : j < 0
           undefined == ui.numBands = 0 \/ below
       IN  \E outcome \in (IF undefined THEN {"fault", "stray"} ELSE {"defined"}),
              stray \in StraySums(ranges, size, Max(ui.numBands, 0)) :
              /\ crashed' = (outcome = "fault")
              /\ ui' = IF outcome = "fault" THEN ui
                       ELSE [ui EXCEPT !.pc = "gfb_sens",
                                       !.bandRanges = ranges,
                                       !.outBands = [k \in 1..ui.numBands |->
                                                       BandValue(smoothedFrequencyData, stray[k],
                                                                 k - 1, ui.numBands,
                                                                 ui.loPass, ui.hiPass)]]
              /\ obs' = [obs EXCEPT !.seen = smoothedFrequencyData,
                                    !.seenGen = Len(obs.history),
                                    !.prevSeen = obs.seen, !.prevGen = obs.seenGen,
                                    !.oobRead = @ \/ below,
                                    !.divZero = @ \/ ui.numBands = 0]
    /\ UNCHANGED <<live, config, auState, smoothedFrequencyData, levels, knobs, dataLock, audio,
                   calls>>

\* getFrequencyBands, lines 226-233: load the sensitivity, scale outBands
GfbSens ==
    /\ ~crashed
    /\ ui.pc = "gfb_sens"
    /\ ui' = [ui EXCEPT !.pc = "gfb_unlock", !.sens = sensitivity,
                        !.outBands = ApplySensitivity(@, sensitivity)]
    /\ UNCHANGED <<live, config, auState, smoothedFrequencyData, levels, knobs, dataLock, audio,
                   crashed, obs, calls>>

\* getFrequencyBands, line 234: the scoped lock is released on return
GfbUnlock ==
    /\ ~crashed
    /\ ui.pc = "gfb_unlock"
    /\ dataLock' = "free"
    /\ ui' = [ui EXCEPT !.pc = "idle"]
    /\ UNCHANGED <<live, config, auState, smoothedFrequencyData, levels, knobs, audio, crashed,
                   obs, calls>>

\* the steps of getFrequencyBands
BandStep ==
    \/ GfbLock
    \/ GfbBands
    \/ GfbSens
    \/ GfbUnlock

UiStep ==
    \/ LoadLevel
    \/ GfdLock
    \/ GfdCopy
    \/ GfdSens
    \/ GfdUnlock
    \/ Mirror
    \/ BandStep

(* ------------------------------------------------------------------ *)
(* Configuration                                                       *)
(* ------------------------------------------------------------------ *)

\* setSmoothingTimeConstant(smoothing), lines 239-243, from a thread that is
\* between calls
SetSmoothingTimeConstant(values) ==
    /\ ~crashed
    /\ audio.pc = "idle" \/ ui.pc = "idle"
    /\ calls.all < MaxCalls
    /\ \E smoothing \in values :
          /\ smoothingTimeConstant' = jlimit(0, Unit, smoothing)
          /\ obs' = [obs EXCEPT !.asked.smoothing = smoothing]
    /\ calls' = [calls EXCEPT !.all = @ + 1]
    /\ UNCHANGED <<live, config, auState, smoothedFrequencyData, levels, sensitivity, dataLock,
                   audio, ui, crashed>>

\* setSensitivity(newSensitivity), lines 245-248
SetSensitivity(values) ==
    /\ ~crashed
    /\ audio.pc = "idle" \/ ui.pc = "idle"
    /\ calls.all < MaxCalls
    /\ \E newSensitivity \in values :
          /\ sensitivity' = Max(0, newSensitivity)
          /\ obs' = [obs EXCEPT !.asked.sensitivity = newSensitivity]
    /\ calls' = [calls EXCEPT !.all = @ + 1]
    /\ UNCHANGED <<live, config, auState, smoothedFrequencyData, levels, smoothingTimeConstant,
                   dataLock, audio, ui, crashed>>

(* ------------------------------------------------------------------ *)
(* Inputs and specifications                                           *)
(* ------------------------------------------------------------------ *)

\* sample values: silence, full scale, and a finite value outside [-1, 1]
SampleValues == {0, Unit, -2 * Unit}

\* n samples, a at the even indices (0-based) and b at the odd ones
Block(n, a, b) == [k \in 1..n |-> IF k % 2 = 1 THEN a ELSE b]

\* block lengths around the frame size: none, one, one short of a frame, a frame,
\* one more, two frames
BlockLengths == {0, 1, fftSize - 1, fftSize, fftSize + 1, 2 * fftSize}

\* arguments of pushSamples: a block and its length, or a non-positive count
PushInputs ==
    {[samples |-> Block(n, a, Unit \div 2), numSamples |-> n] :
        n \in BlockLengths, a \in SampleValues}
    \cup {[samples |-> <<>>, numSamples |-> -1]}

\* arguments of processBlock: no channel, one channel, two channels
BlockInputs ==
    {[channels |-> <<>>, numSamples |-> 1]}
    \cup {[channels |-> <<Block(n, Unit, 0)>>, numSamples |-> n] : n \in {0, 1}}
    \cup {[channels |-> <<Block(n, Unit, 0), Block(n, 0, Unit)>>, numSamples |-> n] :
            n \in {1, kMaxBufferSize + 1}}

\* The audio thread alone: every block above, any split.
AudioNext ==
    \/ PushSamplesCall(PushInputs)
    \/ ProcessBlockCall(BlockInputs)
    \/ AudioStep

SpecAudio == Init /\ [][AudioNext]_vars

\* A steady input on the audio thread: blocks of silence and blocks that repeat
\* one frame (1.0 at the first sample of each half of the frame, 0.25 elsewhere),
\* of one sample, a frame and two frames, with the smoothing constant set to 0,
\* 0.5 or 1 at any point.
SteadyBlock(n, a, b) == [k \in 1..n |-> IF k % (fftSize \div 2) = 1 THEN a ELSE b]

SteadyInputs ==
    {[samples |-> SteadyBlock(n, v[1], v[2]), numSamples |-> n] :
        n \in {1, fftSize, 2 * fftSize}, v \in {<<0, 0>>, <<Unit, Unit \div 4>>}}

SteadySmoothing == {0, Unit \div 2, Unit}

SteadyNext ==
    \/ PushSamplesCall(SteadyInputs)
    \/ PushStep
    \/ SetSmoothingTimeConstant(SteadySmoothing)

SpecSteady == Init /\ [][SteadyNext]_vars

\* setter arguments: below the range, inside it, above it
SmoothingValues == {-Unit, Unit \div 2, 2 * Unit}
SensitivityValues == {-Unit, Unit \div 2, 2 * Unit}

\* getter calls: the spectrum, the mirrored spectrum, the levels, and the bands
Queries ==
    {[op |-> o, numBands |-> 0, loPass |-> 0, hiPass |-> 0] :
        o \in {"getFrequencyData", "getMirroredFrequencyData", "getRMSLevel", "getPeakLevel"}}
    \cup {[op |-> "getFrequencyBands", numBands |-> 2, loPass |-> 0, hiPass |-> fftSize \div 2]}

\* The two threads together: blocks that complete a frame, and a two-channel block.
FrameInputs ==
    {[samples |-> Block(fftSize, Unit, 0), numSamples |-> fftSize],
     [samples |-> Block(fftSize + 1, -2 * Unit, Unit), numSamples |-> fftSize + 1]}

StereoInputs == {[channels |-> <<Block(1, Unit, 0), Block(1, 0, 0)>>, numSamples |-> 1]}

Next ==
    \/ PushSamplesCall(FrameInputs)
    \/ ProcessBlockCall(StereoInputs)
    \/ AudioStep
    \/ QueryCall(Queries, EmptyVector)
    \/ UiStep
    \/ SetSmoothingTimeConstant(SmoothingValues)
    \/ SetSensitivity(SensitivityValues)

Spec == Init /\ [][Next]_vars

\* The two threads scheduled fairly: each thread that can take a step of the
\* call it is in takes one in the end (a thread spinning at dataLock can take
\* its step when the lock is free).
SpecFair == Spec /\ WF_vars(AudioStep) /\ WF_vars(UiStep)

\* The query functions alone, on analyzers whose published spectrum is given:
\* a ramp of distinct values, flat spectra, and 0.4 alternating with 0.6.
Spectra(bins) ==
    {[k \in 1..bins |-> (k * Unit) \div (bins + 1)],
     [k \in 1..bins |-> IF k % 2 = 1 THEN (4 * Unit) \div 10 ELSE (6 * Unit) \div 10]}
    \cup {[k \in 1..bins |-> v] : v \in {0, Unit \div 4, Unit}}

QueryInit ==
    \E order \in 1..MaxQueryOrder :
       \E spectrum \in Spectra(2 ^ (order - 1)), sens \in {0, Unit \div 2, Unit, 2 * Unit} :
          Analyzer(order, 2 ^ order, spectrum, sens)

BandQueries ==
    {[op |-> "getFrequencyBands", numBands |-> nb, loPass |-> lo, hiPass |-> fftSize \div 2] :
        nb \in {1, 2, 3}, lo \in {0, 1}}

QueryNext ==
    \/ QueryCall(Queries \cup BandQueries, EmptyVector)
    \/ UiStep
    \/ SetSensitivity({-Unit, 3 * Unit})

SpecQuery == QueryInit /\ [][QueryNext]_vars

\* The same queries and setter on a Spectrum-mode analyzer, the run keeping each
\* query's results for the next one to be compared with.
RepeatInit ==
    \E spectrum \in Spectra(kSpectrumFFTSize \div 2), sens \in {Unit \div 2, Unit, 2 * Unit} :
       /\ AnalyzerFields(kSpectrumFFTOrder, kSpectrumFFTSize, spectrum, sens)
       /\ obs = [ObsInit(spectrum, sens) EXCEPT !.track = TRUE]

SpecRepeat == RepeatInit /\ [][QueryNext]_vars

\* The same queries on a Spectrum-mode analyzer, into vectors with and without
\* room for the result.
AllocInit ==
    \E spectrum \in Spectra(kSpectrumFFTSize \div 2), sens \in {Unit, 2 * Unit} :
       Analyzer(kSpectrumFFTOrder, kSpectrumFFTSize, spectrum, sens)

AllocNext ==
    \/ QueryCall(Queries \cup BandQueries, VectorCapacities)
    \/ UiStep

SpecAlloc == AllocInit /\ [][AllocNext]_vars

\* getFrequencyBands alone, on spectra of 1 to 2^(MaxBandOrder - 1) bins (a ramp
\* of distinct values, silence, silence with every other bin at 0.5): every band
\* count from -1 to MaxBands, every range with ends from -1 to one past the bin
\* count.
BandSpectra(bins) ==
    {[k \in 1..bins |-> (k * Unit) \div (bins + 1)],
     [k \in 1..bins |-> 0],
     [k \in 1..bins |-> IF k % 2 = 1 THEN 0 ELSE Unit \div 2]}

BandInit ==
    \E order \in 1..MaxBandOrder :
       \E spectrum \in BandSpectra(2 ^ (order - 1)), sens \in {Unit, 2 * Unit} :
          Analyzer(order, 2 ^ order, spectrum, sens)

AllBandQueries ==
    {[op |-> "getFrequencyBands", numBands |-> nb, loPass |-> lo, hiPass |-> hi] :
        nb \in (-1)..MaxBands, lo \in 0..1, hi \in (-1)..(fftSize \div 2 + 1)}

BandNext ==
    \/ QueryCall(AllBandQueries, EmptyVector)
    \/ BandStep

SpecBands == BandInit /\ [][BandNext]_vars

\* getFrequencyBands with ranges that start below the array, on a Waveform-mode
\* analyzer with a published spectrum: one read below the array in the first
\* band, and two of them in one band.
StrayQueries ==
    {[op |-> "getFrequencyBands", numBands |-> nb, loPass |-> -1, hiPass |-> hi] :
        nb \in 0..2, hi \in (-1)..1}
    \cup {[op |-> "getFrequencyBands", numBands |-> 1, loPass |-> -2, hiPass |-> 0]}

StrayInit ==
    \E spectrum \in BandSpectra(kWaveformFFTSize \div 2), sens \in {Unit, 2 * Unit} :
       Analyzer(kWaveformFFTOrder, kWaveformFFTSize, spectrum, sens)

StrayNext ==
    \/ QueryCall(StrayQueries, EmptyVector)
    \/ BandStep

SpecStray == StrayInit /\ [][StrayNext]_vars

(* ------------------------------------------------------------------ *)
(* Properties of the ingestion path (SpecAudio)                        *)
(* ------------------------------------------------------------------ *)

TransformPcs == {"performFFT", "update_lock", "update_bin", "update_unlock", "reset"}

\* C1: between calls, with n the total of the sample counts pushSamples was
\* called with, floor(n / fftSize) transforms have run and the write cursor is
\* n mod fftSize, however the samples were split across the calls.
FrameTriggerCount ==
    audio.pc = "idle" =>
        /\ obs.transforms = obs.pushed \div fftSize
        /\ fifoIndex = obs.pushed % fftSize
        /\ obs.ingested = obs.pushed

\* one call of two frames has fired two transforms
TwoTransformsInOneCall ==
    /\ audio.pc = "idle"
    /\ calls.audio = 1
    /\ obs.pushed = 2 * fftSize
    /\ obs.transforms = 2

\* C2: every published spectrum bin, the published RMS and the published peak
\* are within [0, 1] in every state.
PublishedWithinUnit ==
    /\ \A k \in DOMAIN smoothedFrequencyData :
          0 <= smoothedFrequencyData[k] /\ smoothedFrequencyData[k] <= Unit
    /\ 0 <= smoothedRMS /\ smoothedRMS <= Unit
    /\ 0 <= peakLevel /\ peakLevel <= Unit

\* C5: every index the mono mixdown of processBlock uses in monoMixBuffer is
\* below the length the constructor gave that vector.
MixdownWithinBuffer == ~obs.oob

\* C6: pushSamples with numSamples <= 0 leaves the published RMS, the published
\* peak, the write cursor, the accumulation buffer and the published spectrum as
\* they were when it was called.
NonPositiveCountIsNoOp ==
    (audio.pc = "idle" /\ audio.op = "pushSamples" /\ audio.numSamples <= 0)
        => Ingested = obs.entry

\* C7: the write cursor is never above fftSize; it is below fftSize whenever
\* pushSamples is not running and whenever a sample is about to be stored; it is
\* at fftSize only from the store that fills the frame to the reset that follows
\* the transform, and each fill has run exactly one transform by that reset.
CursorWithinFrame ==
    /\ 0 <= fifoIndex /\ fifoIndex <= fftSize
    /\ audio.pc \in {"idle", "mix", "rms", "peak", "fill"} => fifoIndex < fftSize
    /\ fifoIndex = fftSize <=> audio.pc \in TransformPcs
    /\ obs.transforms = (IF audio.pc = "performFFT" THEN obs.ingested \div fftSize - 1
                                                    ELSE obs.ingested \div fftSize)
    /\ audio.pc \notin TransformPcs => fifoIndex = obs.ingested % fftSize

\* the cursor has reached fftSize in the middle of a block, the transform has run
\* and the reset is next
FrameFilledMidBlock ==
    /\ audio.pc = "reset"
    /\ fifoIndex = fftSize
    /\ obs.transforms = 2
    /\ audio.i + 1 < audio.numSamples

(* ------------------------------------------------------------------ *)
(* Properties of the two threads together (Spec)                       *)
(* ------------------------------------------------------------------ *)

\* C3: the array getFrequencyData copies and getFrequencyBands reads is the
\* published spectrum as it stood after the last whole update before the read:
\* no read mixes bins of a transform with bins that transform has yet to update.
QuerySeesWholeUpdate ==
    obs.seenGen > 0 => obs.seen = obs.history[obs.seenGen]

\* a query has read the result of the first transform while the audio thread
\* is inside a later pushSamples
ReadBetweenUpdates ==
    /\ obs.seenGen = 2
    /\ obs.seen # obs.history[1]
    /\ audio.pc \in {"fill", "performFFT", "update_lock"}
    /\ ui.pc # "idle"

\* C4: the audio thread is never at the lock of updateSmoothedData while the
\* query thread holds it.
AudioNeverWaits == ~(audio.pc = "update_lock" /\ dataLock = "ui")

\* C10: the query thread does not hold dataLock while it scales by the
\* sensitivity, converts to dB, normalises or averages.
LockFreeDuringMath ==
    ui.pc \in {"gfd_sens", "gfb_bands", "gfb_sens"} => dataLock # "ui"

(* ------------------------------------------------------------------ *)
(* Properties of the query functions (SpecQuery)                       *)
(* ------------------------------------------------------------------ *)

GfdDone == ui.op = "getFrequencyData" /\ ui.pc = "idle"

\* C8: getFrequencyData returns fftSize / 2 values, the value of bin k being
\* min(1, v * s) for the published v and the sensitivity s the call read; with
\* s = 2, 0.4 gives 0.8 and 0.6 gives 1.0.
SensitivityScalesAndClamps ==
    GfdDone =>
        /\ Len(ui.outData) = fftSize \div 2
        /\ \A k \in 1..(fftSize \div 2) :
              LET v == smoothedFrequencyData[k]
              IN  /\ ui.outData[k] = Min(Unit, (2 * v * ui.sens + Unit) \div (2 * Unit))
                  /\ (ui.sens = 2 * Unit /\ v = (4 * Unit) \div 10)
                        => ui.outData[k] = (8 * Unit) \div 10
                  /\ (ui.sens = 2 * Unit /\ v = (6 * Unit) \div 10) => ui.outData[k] = Unit

\* getFrequencyData has returned 0.8 for a bin at 0.4 and 1.0 for a bin at 0.6
ScaledAndClampedAtTwo ==
    /\ GfdDone
    /\ ui.sens = 2 * Unit
    /\ \E k \in DOMAIN ui.outData :
          smoothedFrequencyData[k] = (4 * Unit) \div 10 /\ ui.outData[k] = (8 * Unit) \div 10
    /\ \E k \in DOMAIN ui.outData :
          smoothedFrequencyData[k] = (6 * Unit) \div 10 /\ ui.outData[k] = Unit

MirrorDone == ui.op = "getMirroredFrequencyData" /\ ui.pc = "idle"

\* the sub-range of getMirroredFrequencyData: its first bin and half its length
SubStart == (5 * (fftSize \div 2)) \div 100
SubHalf == ((40 * (fftSize \div 2)) \div 100 - SubStart) \div 2

\* C9 as claimed: the output is bins s+h-1 down to s, then bins s+h up to s+2h-1,
\* of getFrequencyData's result.
MirrorLeftThenRightHalf ==
    MirrorDone =>
        ui.mirrored = [k \in 1..(2 * SubHalf) |->
                         IF k <= SubHalf THEN ui.outData[SubStart + SubHalf - k + 1]
                                         ELSE ui.outData[SubStart + k]]

\* C9 as the code has it: the output is bins s+h-1 down to s, then the same bins
\* s up to s+h-1, of getFrequencyData's result; bins s+h and above are not output.
MirrorLeftHalfTwice ==
    MirrorDone =>
        ui.mirrored = [k \in 1..(2 * SubHalf) |->
                         IF k <= SubHalf THEN ui.outData[SubStart + SubHalf - k + 1]
                                         ELSE ui.outData[SubStart + k - SubHalf]]

\* getMirroredFrequencyData has returned a spectrum of distinct bins, from a
\* sub-range that starts above bin 0 and has halves of more than one bin
MirroredDistinctBins ==
    /\ MirrorDone
    /\ SubStart > 0
    /\ SubHalf > 1
    /\ Len(ui.mirrored) = 2 * SubHalf
    /\ \A a, b \in DOMAIN ui.outData : a # b => ui.outData[a] # ui.outData[b]

(* ------------------------------------------------------------------ *)
(* Properties of getFrequencyBands (SpecBands)                         *)
(* ------------------------------------------------------------------ *)

\* getFrequencyBands has returned to its caller
BandsDone == ui.op = "getFrequencyBands" /\ ui.pc = "idle" /\ ~ui.thrown

\* the number of indices in [start, end)
BandWidth(range) == Max(0, range[2] - range[1])

\* the bands, by 1-based number, whose range holds bin j
BandsOfBin(j) ==
    {k \in DOMAIN ui.bandRanges : ui.bandRanges[k][1] <= j /\ j < ui.bandRanges[k][2]}

\* the last band that covers a bin
LastBandInUse ==
    CHOOSE k \in DOMAIN ui.bandRanges :
        /\ BandWidth(ui.bandRanges[k]) > 0
        /\ \A m \in DOMAIN ui.bandRanges : m > k => BandWidth(ui.bandRanges[m]) = 0

\* C11 as claimed: for hiPass > loPass and numBands >= 1 each bin of
\* [loPass, hiPass) is in exactly one band, each band starts where the band
\* before it ends, and every band except the last covers the same number of
\* bins, the last one no more.
BandsEqualButLast ==
    (BandsDone /\ ui.hiPass > ui.loPass /\ ui.numBands >= 1) =>
        LET R == ui.bandRanges
            nb == ui.numBands
        IN  /\ \A j \in ui.loPass..(ui.hiPass - 1) : Cardinality(BandsOfBin(j)) = 1
            /\ \A k \in 1..(nb - 1) : R[k][2] = R[k + 1][1]
            /\ \A k \in 1..(nb - 1) : BandWidth(R[k]) = BandWidth(R[1])
            /\ BandWidth(R[nb]) <= BandWidth(R[1])

\* C11 as the code has it: for hiPass > loPass and numBands >= 1 each bin of
\* [loPass, hiPass) is in exactly one band; the bands that cover a bin come
\* first, each starting where the one before it ends, from loPass to hiPass;
\* each of them but the last covers ceil((hiPass - loPass) / numBands) bins, the
\* last of them no more, and every band after it covers no bin.
BandsPartitionRange ==
    (BandsDone /\ ui.hiPass > ui.loPass /\ ui.numBands >= 1) =>
        LET R == ui.bandRanges
            nb == ui.numBands
            last == LastBandInUse
            chunk == BandWidth(R[1])
        IN  /\ \A j \in ui.loPass..(ui.hiPass - 1) : Cardinality(BandsOfBin(j)) = 1
            /\ R[1][1] = ui.loPass /\ R[last][2] = ui.hiPass
            /\ chunk * nb >= ui.hiPass - ui.loPass
            /\ (chunk - 1) * nb < ui.hiPass - ui.loPass
            /\ \A k \in 1..(last - 1) : R[k][2] = R[k + 1][1] /\ BandWidth(R[k]) = chunk
            /\ BandWidth(R[last]) <= chunk
            /\ \A k \in (last + 1)..nb : BandWidth(R[k]) = 0

\* five bins inside the array have been split into four bands of 2, 2, 1 and 0
\* bins
ShortBandBeforeEmptyBand ==
    /\ BandsDone
    /\ ui.numBands = 4
    /\ ui.loPass >= 0 /\ ui.hiPass = ui.loPass + 5 /\ ui.hiPass <= fftSize \div 2
    /\ [k \in 1..4 |-> BandWidth(ui.bandRanges[k])] = <<2, 2, 1, 0>>

\* C12: with sensitivity 1 and 0 <= loPass < hiPass <= the bin count, one band
\* is the mean over the bins j of [loPass, hiPass) of normalizeDb(20 log10(bin j)),
\* a bin at 0 adding the normalised floor, which is 0; and hiPass - loPass bands
\* are, band i, the normalised value of bin loPass + i alone.
BandAveraging ==
    (/\ BandsDone
     /\ ui.sens = Unit
     /\ 0 <= ui.loPass /\ ui.loPass < ui.hiPass
     /\ ui.hiPass <= Len(smoothedFrequencyData)) =>
        LET width == ui.hiPass - ui.loPass
            bin(k) == smoothedFrequencyData[ui.loPass + k]
            norm(m) == IF m = 0 THEN normalizeDb(kMinDb) ELSE normalizeDb(DbOf(m))
        IN  /\ normalizeDb(kMinDb) = 0
            /\ ui.numBands = 1 =>
                  ui.outBands = <<RDiv(SumTo([k \in 1..width |-> norm(bin(k))], width), width)>>
            /\ ui.numBands = width =>
                  ui.outBands = [k \in 1..width |-> norm(bin(k))]

\* three bins, not all alike and one of them at 0, have come back as three bands,
\* and as one band on a spectrum of as many bins
OneBinPerBand ==
    /\ BandsDone
    /\ ui.sens = Unit
    /\ ui.loPass = 1 /\ ui.hiPass = 4 /\ ui.hiPass <= Len(smoothedFrequencyData)
    /\ ui.numBands = 3
    /\ \E k \in 1..3 : smoothedFrequencyData[1 + k] = 0 /\ ui.outBands[k] = 0
    /\ \E k \in 1..3 : ui.outBands[k] > 0

\* C13: for every numBands, loPass and hiPass, getFrequencyBands reads the
\* published array inside its bounds only, never divides by zero, and returns 0
\* for each band that holds no bin of the array.
DegenerateBandsHandled ==
    /\ ~obs.oobRead
    /\ ~obs.divZero
    /\ BandsDone =>
          \A k \in DOMAIN ui.outBands :
             (\A j \in BinsRead(ui.bandRanges[k], Len(smoothedFrequencyData)) : j < 0)
                => ui.outBands[k] = 0

(* ------------------------------------------------------------------ *)
(* Properties of the configuration (Spec)                              *)
(* ------------------------------------------------------------------ *)

\* C14: after any calls of the setters, from either thread and at any point of
\* the other thread's work, the stored smoothing constant is in [0, 1] and the
\* stored sensitivity is >= 0; each is the argument of its last call, or the
\* bound nearest to an argument out of range, and no call has ended the process.
SettersClamp ==
    /\ 0 <= smoothingTimeConstant /\ smoothingTimeConstant <= Unit
    /\ 0 <= sensitivity
    /\ LET a == obs.asked.smoothing
       IN  smoothingTimeConstant = (IF a < 0 THEN 0 ELSE IF a > Unit THEN Unit ELSE a)
    /\ LET a == obs.asked.sensitivity
       IN  sensitivity = (IF a < 0 THEN 0 ELSE a)
    /\ crashed => obs.oob

\* a smoothing of 2.0 is stored as 1.0 and a sensitivity of -1.0 as 0.0, while
\* the audio thread is inside pushSamples
SettersClampedMidPush ==
    /\ obs.asked.smoothing = 2 * Unit /\ smoothingTimeConstant = Unit
    /\ obs.asked.sensitivity = -Unit /\ sensitivity = 0
    /\ audio.pc \notin {"idle", "mix"}

(* ------------------------------------------------------------------ *)
(* Properties of a steady input (SpecSteady)                           *)
(* ------------------------------------------------------------------ *)

\* the whole updates so far, by number: update n took the published spectrum
\* from obs.history[n] to obs.history[n + 1]
Updates == 1..Len(obs.targets)
Bins == 1..(fftSize \div 2)

\* a distance that the rounding of the arithmetic cannot bridge: 0.005
RoundingTol == Unit \div 200

\* update n transformed a frame whose scaled values are all 0
ZeroTarget(n) == \A k \in Bins : obs.targets[n][k] = 0

\* the last call of pushSamples was given a block of at least one sample, all 0,
\* and has returned
ZeroBlockDone ==
    /\ audio.pc = "idle" /\ audio.op = "pushSamples"
    /\ audio.numSamples > 0 /\ obs.zeroPushed > 0

\* C15 as claimed: once all-zero blocks of at least fftSize samples in all have
\* been pushed, the published RMS and peak are 0, on a fresh analyzer or not;
\* and each all-zero frame brings every bin that is not yet at 0 closer to 0.
SilenceZeroesLevels ==
    /\ (audio.pc = "idle" /\ obs.zeroPushed >= fftSize) => (smoothedRMS = 0 /\ peakLevel = 0)
    /\ \A n \in Updates :
          ZeroTarget(n) =>
             \A k \in Bins :
                obs.history[n][k] > RoundingTol => obs.history[n + 1][k] < obs.history[n][k]

\* C15 as the code has it: an analyzer that has only been given silence has RMS,
\* peak and every bin at 0; after any earlier input, each all-zero block of at
\* least one sample sets the peak to 0 and multiplies the RMS by
\* 1 - kVolumeSmoothingFactor, and each all-zero frame multiplies every bin by the
\* smoothing constant it is smoothed with, so that no bin grows, and every bin
\* above the rounding shrinks when that constant is below 1.
SilenceDecays ==
    /\ obs.pushed = obs.zeroPushed =>
          (smoothedRMS = 0 /\ peakLevel = 0 /\ \A k \in Bins : smoothedFrequencyData[k] = 0)
    /\ ZeroBlockDone =>
          /\ peakLevel = 0
          /\ 0 <= smoothedRMS /\ smoothedRMS <= obs.entry[1]
          /\ Abs(Unit * smoothedRMS - (Unit - kVolumeSmoothingFactor) * obs.entry[1]) <= Unit
    /\ \A n \in Updates :
          ZeroTarget(n) =>
             \A k \in Bins :
                LET old == obs.history[n][k]
                    new == obs.history[n + 1][k]
                IN  /\ 0 <= new /\ new <= old
                    /\ Abs(Unit * new - obs.smooths[n] * old) <= Unit
                    /\ (obs.smooths[n] < Unit /\ old > RoundingTol) => new < old

\* after a block that was not silent, two frames of silence have been pushed:
\* the peak is 0, the RMS is not, and the last frame has lowered a bin that is
\* still above 0
SilenceAfterSound ==
    /\ ZeroBlockDone
    /\ obs.zeroPushed = 2 * fftSize /\ obs.pushed > obs.zeroPushed
    /\ peakLevel = 0 /\ smoothedRMS > 0
    /\ Len(obs.targets) >= 2 /\ ZeroTarget(Len(obs.targets))
    /\ \E k \in Bins : 0 < smoothedFrequencyData[k]
                       /\ smoothedFrequencyData[k] < obs.history[Len(obs.targets)][k]

\* update n, for n > 1, transformed a frame with the scaled values of the frame
\* before it, not all 0
SameTarget(n) ==
    /\ n > 1
    /\ obs.targets[n] = obs.targets[n - 1]
    /\ ~ZeroTarget(n)

\* C16 as claimed: when a non-zero frame is transformed again, with any smoothing
\* constant of [0, 1], no bin is further from its scaled value than before or on
\* its other side, and a bin not yet within tolerance of it has come closer (a
\* transform that leaves a bin where it is leaves it there at every repeat, so
\* the bin would never come within tolerance).
SmoothingConverges ==
    \A n \in Updates :
       SameTarget(n) =>
          \A k \in Bins :
             LET old == obs.history[n][k] - obs.targets[n][k]
                 new == obs.history[n + 1][k] - obs.targets[n][k]
             IN  Abs(old) > RoundingTol =>
                    /\ Abs(new) < Abs(old)
                    /\ new * old >= 0

\* C16 as the code has it: when a non-zero frame is transformed again, the
\* distance of each bin from its scaled value is multiplied by the smoothing
\* constant k (within the rounding of the arithmetic): it is never larger than
\* before nor on the other side, and for k < 1 it is smaller, so that it falls
\* below a tolerance after log(tolerance / distance) / log(k) frames; for k = 1
\* the bin stays where it is.
SmoothingContracts ==
    \A n \in Updates :
       SameTarget(n) =>
          \A k \in Bins :
             LET old == obs.history[n][k] - obs.targets[n][k]
                 new == obs.history[n + 1][k] - obs.targets[n][k]
                 smooth == obs.smooths[n]
             IN  /\ Abs(Unit * new - smooth * old) <= Unit
                 /\ Abs(old) > RoundingTol =>
                       /\ Abs(new) <= Abs(old)
                       /\ new * old >= 0
                       /\ smooth < Unit => Abs(new) < Abs(old)
                 /\ smooth = Unit => new = old

\* one frame has been transformed four times with the constant at 0.5, and a
\* bin has come closer to its scaled value each time without reaching it
FourFramesCloser ==
    /\ Len(obs.targets) = 4
    /\ \A n \in 2..4 : SameTarget(n) /\ obs.smooths[n] = Unit \div 2
    /\ \E k \in Bins :
          \A n \in 2..4 :
             /\ Abs(obs.history[n + 1][k] - obs.targets[n][k]) > 0
             /\ Abs(obs.history[n + 1][k] - obs.targets[n][k])
                   < Abs(obs.history[n][k] - obs.targets[n][k])

(* ------------------------------------------------------------------ *)
(* Properties of the sizes (Spec)                                      *)
(* ------------------------------------------------------------------ *)

\* kWaveformFFTOrder = 8 and kSpectrumFFTOrder = 11 as AudioAnalyzer.h declares
\* them, with kWaveformFFTSize = 1 << 8 and kSpectrumFFTSize = 1 << 11
kHeaderWaveformFFTOrder == 8
kHeaderSpectrumFFTOrder == 11
kHeaderWaveformFFTSize == 2 ^ kHeaderWaveformFFTOrder
kHeaderSpectrumFFTSize == 2 ^ kHeaderSpectrumFFTOrder

\* The analyzer as the header sizes it, in either mode: blocks of one and two
\* samples, the getters (the bands over the first eight bins; the mirrored
\* spectrum in Waveform mode, where its loops pass over 22 bins each and not
\* 179) and the setters.
\* No block completes a frame here: the sums of a transform over 256 or 2048
\* samples are beyond the integers these runs compute with, so the steps from
\* performFFT to the end of updateSmoothedData are run at the scaled orders
\* (Spec), and SizesKeptByEveryStep is the same property there.
SizesInit == \E mode \in Modes : ConstructWith(mode, kHeaderWaveformFFTOrder, kHeaderSpectrumFFTOrder)

SizeInputs == {[samples |-> Block(n, Unit, Unit \div 2), numSamples |-> n] : n \in {1, 2}}

SizeQueries ==
    {[op |-> o, numBands |-> 0, loPass |-> 0, hiPass |-> 0] :
        o \in {"getFrequencyData", "getRMSLevel", "getPeakLevel"}
               \cup (IF fftSize = kHeaderWaveformFFTSize THEN {"getMirroredFrequencyData"}
                                                         ELSE {})}
    \cup {[op |-> "getFrequencyBands", numBands |-> 2, loPass |-> 0, hiPass |-> 8]}

SizesNext ==
    \/ PushSamplesCall(SizeInputs)
    \/ CalcRMS
    \/ TrackPeak
    \/ FillFifo
    \/ QueryCall(SizeQueries, EmptyVector)
    \/ UiStep
    \/ SetSmoothingTimeConstant({Unit \div 2})
    \/ SetSensitivity({2 * Unit})

SpecSizes == SizesInit /\ [][SizesNext]_vars

\* the frame order, the frame size and the lengths of the three buffers as the
\* constructor leaves them
SizesAsConstructed ==
    /\ getFFTSize = 2 ^ fftOrder
    /\ 2 * getFrequencyBinCount = getFFTSize
    /\ Len(smoothedFrequencyData) = getFrequencyBinCount
    /\ Len(fifo) = getFFTSize
    /\ Len(fftData) = 2 * getFFTSize

\* a step that leaves the frame order, the frame size and the length of the
\* published array as they were
SizesKept ==
    /\ fftOrder' = fftOrder
    /\ fftSize' = fftSize
    /\ Len(smoothedFrequencyData') = Len(smoothedFrequencyData)

SizesKeptByEveryStep ==
    /\ [](/\ <<obs.mode, fftOrder>> \in {<<"Waveform", kWaveformFFTOrder>>,
                                         <<"Spectrum", kSpectrumFFTOrder>>}
          /\ SizesAsConstructed)
    /\ [][SizesKept]_vars

\* at the scaled orders, in Spectrum mode a transform has been published and getFrequencyData has
\* returned a vector of half the frame size
SpectrumReadAfterTransform ==
    /\ fftSize = kSpectrumFFTSize
    /\ Len(obs.history) >= 2
    /\ ui.pc = "idle" /\ ui.op = "getFrequencyData"
    /\ Len(ui.outData) = kSpectrumFFTSize \div 2
    /\ obs.seenGen >= 2

(* ------------------------------------------------------------------ *)
(* Properties of processBlock (SpecAudio)                              *)
(* ------------------------------------------------------------------ *)

\* processBlock is mixing, or has mixed, a buffer of two channels or more
MultiChannel == audio.op = "processBlock" /\ Len(audio.channels) >= 2

\* C18: processBlock on C >= 2 channels of n >= 1 samples hands
\* min(n, kMaxBufferSize) samples to pushSamples, sample i being the mean over
\* the channels of their sample i; the rest is dropped without error, and on
\* return the write cursor has advanced by that count modulo fftSize.
MixdownIngestsMeans ==
    /\ MultiChannel => ~crashed
    /\ (MultiChannel /\ audio.pc = "rms") =>
          LET C == Len(audio.channels)
              n == Len(audio.channels[1])
          IN  /\ audio.numSamples = Min(n, kMaxBufferSize)
              /\ \A i \in 1..audio.numSamples :
                    Abs(C * audio.samples[i]
                        - SumTo([ch \in 1..C |-> audio.channels[ch][i]], C)) <= C
    /\ (MultiChannel /\ audio.pc = "idle") =>
          fifoIndex = (obs.entry[3] + audio.numSamples) % fftSize

(* ------------------------------------------------------------------ *)
(* Properties of successive queries (Spec)                             *)
(* ------------------------------------------------------------------ *)

\* C19: of two successive queries, the first read the published spectrum as it
\* stood after g - 1 whole updates and the second as it stood after h - 1 whole
\* updates, with g <= h, however the audio thread ran in between.
QueriesSeeLaterUpdates ==
    obs.prevGen > 0 =>
        /\ obs.prevGen <= obs.seenGen
        /\ obs.seenGen <= Len(obs.history)
        /\ obs.prevSeen = obs.history[obs.prevGen]
        /\ obs.seen = obs.history[obs.seenGen]

\* a query has read the spectrum before the first transform, and the next one
\* has read it, changed, after that transform
SecondQuerySeesTransform ==
    /\ obs.prevGen = 1 /\ obs.seenGen = 2
    /\ obs.prevSeen # obs.seen
    /\ ui.pc = "idle"

(* ------------------------------------------------------------------ *)
(* Properties of fair runs of the two threads (SpecFair)               *)
(* ------------------------------------------------------------------ *)

\* C20: each call of pushSamples, processBlock or a getter that has begun
\* returns (the setters are one store each): neither thread stays inside a call
\* for ever, at dataLock or anywhere else.
EveryCallReturns ==
    /\ (audio.pc # "idle") ~> (audio.pc = "idle")
    /\ (ui.pc # "idle") ~> (ui.pc = "idle")

(* ------------------------------------------------------------------ *)
(* Properties of the frames (SpecAudio)                                *)
(* ------------------------------------------------------------------ *)

\* C21: the frame the k-th performFFT copies is the samples numbered
\* (k - 1) * fftSize + 1 to k * fftSize in the order they came in, over all the
\* calls: each sample is in one frame, at its place, none left out or used twice.
FramesAreArrivals ==
    /\ Len(obs.frames) = obs.transforms
    /\ Len(obs.arrived) = obs.ingested
    /\ \A k \in 1..Len(obs.frames) :
          obs.frames[k] = SubSeq(obs.arrived, (k - 1) * fftSize + 1, k * fftSize)

\* two calls, of a frame and a sample and then of a frame, have given two
\* frames that differ, the second one made of samples of both calls
FrameAcrossCalls ==
    /\ audio.pc = "idle"
    /\ calls.audio = 2
    /\ Len(obs.arrived) = 2 * fftSize + 1
    /\ audio.numSamples = fftSize
    /\ Len(obs.frames) = 2
    /\ obs.frames[1] # obs.frames[2]

(* ------------------------------------------------------------------ *)
(* Properties of the lock (Spec)                                       *)
(* ------------------------------------------------------------------ *)

\* C22: every step that changes the published spectrum is a step of the audio
\* thread in the loop of updateSmoothedData, with dataLock held by that thread
\* before and after; and the audio thread does not hold dataLock anywhere else,
\* in particular not while performFFT copies, windows and transforms the frame.
SpectrumWrittenUnderLock ==
    /\ [][smoothedFrequencyData' # smoothedFrequencyData =>
             /\ audio.pc = "update_bin"
             /\ dataLock = "audio" /\ dataLock' = "audio"
             /\ ui' = ui]_vars
    /\ [](audio.pc \notin {"update_bin", "update_unlock"} => dataLock # "audio")

\* the audio thread is half way through an update, holding dataLock, and the
\* query thread is waiting for it
UpdateHalfDone ==
    /\ audio.pc = "update_bin" /\ audio.bin >= 1
    /\ dataLock = "audio"
    /\ smoothedFrequencyData # obs.history[Len(obs.history)]
    /\ ui.pc \in {"gfd_lock", "gfb_lock"}

(* ------------------------------------------------------------------ *)
(* Properties of the peak (SpecAudio)                                  *)
(* ------------------------------------------------------------------ *)

\* a call of pushSamples with numSamples > 0 has returned
BlockDone == audio.pc = "idle" /\ audio.op = "pushSamples" /\ audio.numSamples > 0

\* the samples of the block of the last call: the last numSamples that came in
LastBlock ==
    SubSeq(obs.arrived, Len(obs.arrived) - audio.numSamples + 1, Len(obs.arrived))

\* C23: after pushSamples with numSamples > 0 the published peak is the largest
\* absolute value of that block's samples, whatever the peak was before.
PeakIsBlockMaximum ==
    BlockDone =>
        /\ \A k \in 1..audio.numSamples : Abs(LastBlock[k]) <= peakLevel
        /\ \E k \in 1..audio.numSamples : Abs(LastBlock[k]) = peakLevel

\* a block whose largest sample is 0.5 has followed one that held -2.0: the peak
\* has come down from 2.0 to 0.5
QuietAfterLoud ==
    /\ BlockDone
    /\ calls.audio = 2
    /\ obs.entry[2] = 2 * Unit
    /\ peakLevel = Unit \div 2
    /\ audio.numSamples > 1

(* ------------------------------------------------------------------ *)
(* Properties of the smoothing (SpecSteady)                            *)
(* ------------------------------------------------------------------ *)

\* the loop of updateSmoothedData has run over every bin and the lock is still held
UpdateDone == audio.pc = "update_unlock"

\* clamp(2 * magnitude / fftSize, 0, 1) of bin i of the transform just made
ClampedTwice(i) == Min(Unit, Max(0, RDiv(2 * fftData[i], fftSize)))

\* C24: a transform takes every published bin i from old_i to
\* old_i * k + c_i * (1 - k), c_i = clamp(2 * magnitude_i / fftSize, 0, 1) and k the
\* smoothing constant the update loaded (within the rounding of the three
\* products); with k = 0 the bin is c_i and with k = 1 it is old_i.
SmoothingFormula ==
    UpdateDone =>
        \A i \in Bins :
           LET old == obs.history[Len(obs.history)][i]
               new == smoothedFrequencyData[i]
               k == audio.smooth
               c == ClampedTwice(i)
           IN  /\ Abs(Unit * new - (k * old + (Unit - k) * c)) <= 2 * Unit
               /\ k = 0 => Abs(new - c) <= 1
               /\ k = Unit => new = old
               /\ 0 <= c /\ c <= Unit

\* with k = 0.5 a bin that was above 0 has moved to a value strictly between
\* where it was and its scaled value
HalfWayToScaledValue ==
    /\ UpdateDone
    /\ audio.smooth = Unit \div 2
    /\ \E i \in Bins :
          LET old == obs.history[Len(obs.history)][i]
          IN  /\ old > 0
              /\ old < smoothedFrequencyData[i]
              /\ smoothedFrequencyData[i] < ClampedTwice(i)

(* ------------------------------------------------------------------ *)
(* LiveWaveformVisualizer                                              *)
(* ------------------------------------------------------------------ *)

\* everything of the analyzer that the visualizer's defined steps leave alone
analyzerVars == <<config, auState, smoothedFrequencyData, levels, knobs, dataLock, audio, ui,
                  obs, calls>>

\* the process runs and every member still holds a value the code gave it
LiveDefined == ~crashed /\ ~live.undefined

\* setAudioAnalyzer(analyzer), with the analyzer of this model or with nullptr
setAudioAnalyzer ==
    /\ LiveDefined
    /\ \E analyzer \in BOOLEAN : live' = [live EXCEPT !.audioAnalyzer = analyzer]
    /\ UNCHANGED <<analyzerVars, crashed>>

\* history.clear() (line 521)
Cleared(v) == [v EXCEPT !.history = <<>>]

\* clearHistory()
clearHistory ==
    /\ LiveDefined
    /\ live' = Cleared(live)
    /\ UNCHANGED <<analyzerVars, crashed>>

\* setActive(isActive), which calls clearHistory() when it turns active; the
\* timer runs while active
setActive ==
    /\ LiveDefined
    /\ \E isActive \in BOOLEAN :
          live' = IF live.active # isActive
                  THEN IF isActive THEN Cleared([live EXCEPT !.active = TRUE])
                                   ELSE [live EXCEPT !.active = FALSE]
                  ELSE live
    /\ UNCHANGED <<analyzerVars, crashed>>

\* setHistorySize(size)
setHistorySize(sizes) ==
    /\ LiveDefined
    /\ \E size \in sizes : live' = [live EXCEPT !.historySize = size]
    /\ UNCHANGED <<analyzerVars, crashed>>

\* LiveWaveformVisualizer::setSensitivity(sens)
LiveSetSensitivity(values) ==
    /\ LiveDefined
    /\ \E sens \in values : live' = [live EXCEPT !.sensitivity = sens]
    /\ UNCHANGED <<analyzerVars, crashed>>

\* the loop of timerCallback, lines 602-605, up to its end or to its first
\* erase from an empty history: erase the first entry while
\* static_cast<int>(history.size()) is above historySize. The test reads the
\* member historySize on every pass; up to the first erase from an empty
\* history nothing has written to it since the callback began (the setters run
\* on the same thread as the timer), so every pass reads the same value. The
\* loop has no test for an empty history: with historySize < 0 it erases every
\* entry and then calls erase(begin()) on the empty vector. What the loop does
\* after that call is not defined, and is not followed here.
RECURSIVE Trim(_, _)
Trim(history, historySize) ==
    IF Len(history) > historySize
    THEN IF history = <<>> THEN [history |-> <<>>, erasedEmpty |-> TRUE]
                           ELSE Trim(Tail(history), historySize)
    ELSE [history |-> history, erasedEmpty |-> FALSE]

\* erase(begin()) of an empty vector has moved a range of -1 elements and
\* returned: the words around the vector's storage have been shifted, and the
\* members of the visualizer and of the analyzer hold whatever that left
\* (historySize and sensitivity included, so the loop may end at once or go
\* on). Nothing is said about any of them, and no step is taken from here.
UndefinedReturn ==
    /\ live' = [audioAnalyzer |-> Undefined, history |-> Undefined, active |-> Undefined,
                historySize |-> Undefined, sensitivity |-> Undefined,
                undefined |-> TRUE, ticks |-> live.ticks + 1, erasedEmpty |-> TRUE,
                lastTick |-> [before |-> live.history, after |-> Undefined,
                              historySize |-> live.historySize]]
    /\ fftOrder' = Undefined /\ fftSize' = Undefined /\ monoMixBuffer' = Undefined
    /\ fftData' = Undefined /\ fifo' = Undefined /\ fifoIndex' = Undefined
    /\ smoothedFrequencyData' = Undefined
    /\ smoothedRMS' = Undefined /\ peakLevel' = Undefined
    /\ smoothingTimeConstant' = Undefined /\ sensitivity' = Undefined
    /\ dataLock' = Undefined
    /\ UNCHANGED <<audio, ui, obs, calls, crashed>>

\* erase(begin()) of an empty vector has killed the process in that move
KilledInErase ==
    /\ crashed' = TRUE
    /\ live' = [live EXCEPT !.ticks = @ + 1, !.erasedEmpty = TRUE,
                            !.lastTick = [before |-> live.history, after |-> Undefined,
                                          historySize |-> live.historySize]]
    /\ UNCHANGED analyzerVars

\* timerCallback(), called while the timer that setActive(true) started runs.
\* getRMSLevel() is the atomic load of smoothedRMS. erase(begin()) of an empty
\* vector is undefined: the process is killed in it, or it returns with the
\* memory around the vector's storage overwritten.
timerCallback ==
    /\ LiveDefined
    /\ live.active
    /\ live.ticks < MaxTicks
    /\ IF ~live.audioAnalyzer \/ ~live.active                          \* lines 592-593
       THEN UNCHANGED vars
       ELSE LET level == MulF(smoothedRMS, live.sensitivity)
                clampedLevel == jlimit(kMinLevel, Unit, level)
                trimmed == Trim(Append(live.history, clampedLevel), live.historySize)
            IN  IF trimmed.erasedEmpty
                THEN KilledInErase \/ UndefinedReturn
                ELSE /\ live' = [live EXCEPT !.history = trimmed.history,
                                             !.ticks = @ + 1,
                                             !.lastTick = [before |-> live.history,
                                                           after |-> trimmed.history,
                                                           historySize |-> live.historySize]]
                     /\ UNCHANGED <<analyzerVars, crashed>>

\* the values the visualizer is configured with, and the RMS levels the
\* analyzer publishes
HistorySizes == {-3, -1, 0, 1, 2}
LiveSensitivities == {-Unit, Unit \div 2, 2 * Unit}
LiveLevels == {0, Unit \div 10, Unit \div 2}

\* a fresh visualizer and a Waveform-mode analyzer between calls that has
\* published an RMS level
LiveInit ==
    \E rms \in LiveLevels :
       /\ fftOrder = kWaveformFFTOrder
       /\ fftSize = kWaveformFFTSize
       /\ fftData = Zeros(kWaveformFFTSize * 2)
       /\ fifo = Zeros(kWaveformFFTSize)
       /\ fifoIndex = 0
       /\ smoothedFrequencyData = Zeros(kWaveformFFTSize \div 2)
       /\ smoothedRMS = rms
       /\ peakLevel = rms
       /\ smoothingTimeConstant = kDefaultSmoothing
       /\ sensitivity = Unit
       /\ dataLock = "free"
       /\ monoMixBuffer = <<>>
       /\ audio = AudioIdle
       /\ ui = UiIdle
       /\ crashed = FALSE
       /\ calls = [audio |-> 0, all |-> 0]
       /\ obs = ObsInit(Zeros(kWaveformFFTSize \div 2), Unit)
       /\ live = LiveFresh

LiveNext ==
    \/ setAudioAnalyzer
    \/ setActive
    \/ clearHistory
    \/ setHistorySize(HistorySizes)
    \/ LiveSetSensitivity(LiveSensitivities)
    \/ timerCallback

SpecLive == LiveInit /\ [][LiveNext]_vars

(* ------------------------------------------------------------------ *)
(* Properties of repeated queries (SpecRepeat)                         *)
(* ------------------------------------------------------------------ *)

\* what a getter gives back to its caller
Returned(u) == <<u.outData, u.mirrored, u.outBands, u.level>>

\* a getter has returned, the call before it was the same call with the same
\* arguments, and since that call began nothing but the query thread has run
RepeatedQueryDone ==
    /\ ui.pc = "idle" /\ ui.op # "none"
    /\ obs.prevCall.op = ui.op
    /\ <<obs.prevCall.numBands, obs.prevCall.loPass, obs.prevCall.hiPass>>
          = <<ui.numBands, ui.loPass, ui.hiPass>>
    /\ obs.prevStamp # <<>>
    /\ obs.stamp = <<obs.prevStamp[1] + 1, obs.prevStamp[2]>>
    /\ Stamp = <<obs.stamp[1] + 1, obs.stamp[2]>>

\* C25: no step of a getter changes the published spectrum, the published RMS
\* and peak, the accumulation buffer and its cursor, the smoothing constant or
\* the sensitivity (the scaling is made in the caller's vector); and a getter
\* called twice with the same arguments, nothing else having run in between,
\* returns the same values twice.
GettersReadOnly ==
    /\ [][ui' # ui => UNCHANGED <<smoothedFrequencyData, smoothedRMS, peakLevel, fifo,
                                  fifoIndex, smoothingTimeConstant, sensitivity,
                                  fftSize>>]_vars
    /\ [](RepeatedQueryDone => Returned(ui) = Returned(obs.prevCall))

\* getFrequencyData has returned twice running, with the sensitivity at 2, values
\* that are not the published ones, and the same values both times
SameScaledCopyTwice ==
    /\ RepeatedQueryDone
    /\ ui.op = "getFrequencyData"
    /\ ui.sens = 2 * Unit
    /\ ui.outData # smoothedFrequencyData
    /\ ui.outData = obs.prevCall.outData

(* ------------------------------------------------------------------ *)
(* The sub-range of the mirrored spectrum (SpecQuery)                  *)
(* ------------------------------------------------------------------ *)

\* the sub-range [s, e) of a spectrum of the given number of bins: 5% and 40% of
\* the bins, truncated
SubRange(totalBins) == <<(5 * totalBins) \div 100, (40 * totalBins) \div 100>>

\* C26: when getMirroredFrequencyData has returned, every index it read lies
\* inside the copy of the spectrum, its output has 2 * floor((e - s) / 2)
\* entries for the sub-range [s, e), and the output is empty when the
\* sub-range has fewer than two bins.
MirrorStaysInRange ==
    MirrorDone =>
       LET totalBins == Len(ui.outData)
           s == SubRange(totalBins)[1]
           e == SubRange(totalBins)[2]
           idx == MirroredIndices(totalBins)
       IN  /\ \A k \in 1..Len(idx) : idx[k] \in 0..(totalBins - 1)
           /\ Len(idx) = Len(ui.mirrored)
           /\ Len(ui.mirrored) = 2 * ((e - s) \div 2)
           /\ e - s < 2 => ui.mirrored = <<>>

\* getMirroredFrequencyData has returned nothing for a spectrum of four bins,
\* whose sub-range [0, 1) holds one bin
MirrorOfOneBinEmpty ==
    /\ MirrorDone
    /\ Len(ui.outData) = 4
    /\ SubRange(4)[2] - SubRange(4)[1] = 1
    /\ ui.mirrored = <<>>

(* ------------------------------------------------------------------ *)
(* Allocation and the lock (SpecAlloc)                                 *)
(* ------------------------------------------------------------------ *)

\* C27: the query thread allocates nothing while it holds dataLock: every
\* allocation of a getter is made with the lock not held by the query thread.
NoAllocationUnderLock == \A k \in 1..Len(ui.allocs) : ~ui.allocs[k]

\* getFrequencyBands sizes outBands before it takes the lock, and allocates
\* nothing after
BandsAllocateBeforeLock ==
    ui.op = "getFrequencyBands" /\ ~ui.thrown =>
        ui.allocs = IF ui.numBands > ui.capacity THEN <<FALSE>> ELSE <<>>

\* getFrequencyData into a vector with room for every bin allocates nothing
SizedVectorNotGrown ==
    ui.op = "getFrequencyData" /\ ui.capacity >= Len(smoothedFrequencyData) =>
        ui.allocs = <<>>

\* getFrequencyData has copied the spectrum into a vector with too little room
\* for it
CopyGrewVector ==
    /\ ui.op = "getFrequencyData" /\ ui.pc = "idle"
    /\ ui.capacity < Len(ui.outData)
    /\ ui.allocs = <<TRUE>>

(* ------------------------------------------------------------------ *)
(* The discipline of dataLock (Spec)                                   *)
(* ------------------------------------------------------------------ *)

\* where each thread is between taking dataLock and releasing it
UiCritical == {"gfd_copy", "gfd_sens", "gfd_unlock", "gfb_bands", "gfb_sens", "gfb_unlock"}
AudioCritical == {"update_bin", "update_unlock"}

\* C28: a thread about to take dataLock does not hold it already; a thread
\* outside its critical sections (returned, or in getMirroredFrequencyData
\* after its call of getFrequencyData) does not hold it; so the two threads
\* are never both inside a critical section, the lock's holder is the thread
\* inside one, and the lock is free whenever both threads are idle.
LockDiscipline ==
    /\ ui.pc \in {"gfd_lock", "gfb_lock"} => dataLock # "ui"
    /\ audio.pc = "update_lock" => dataLock # "audio"
    /\ ui.pc \notin UiCritical => dataLock # "ui"
    /\ audio.pc \notin AudioCritical => dataLock # "audio"
    /\ ui.pc \in UiCritical => dataLock = "ui"
    /\ audio.pc \in AudioCritical => dataLock = "audio"
    /\ ~(ui.pc \in UiCritical /\ audio.pc \in AudioCritical)
    /\ (ui.pc = "idle" /\ audio.pc = "idle") => dataLock = "free"

\* getMirroredFrequencyData is past its call of getFrequencyData, which released
\* the lock, and the audio thread has taken the lock for an update meanwhile
MirrorWhileUpdating ==
    /\ ui.op = "getMirroredFrequencyData" /\ ui.pc = "mirror"
    /\ audio.pc \in AudioCritical
    /\ dataLock = "audio"

(* ------------------------------------------------------------------ *)
(* One load of a configuration scalar per operation (Spec)             *)
(* ------------------------------------------------------------------ *)

\* the bins the update in progress has written
BinsWritten ==
    IF audio.pc = "update_bin" THEN 1..audio.bin
    ELSE IF audio.pc = "update_unlock" THEN Bins ELSE {}

\* C29: every bin an update has written was smoothed with the one constant the
\* update loaded, whatever setSmoothingTimeConstant has stored since; and every
\* value getFrequencyData or getFrequencyBands has scaled was scaled by the one
\* sensitivity the call loaded, whatever setSensitivity has stored since.
OneLoadPerOperation ==
    /\ \A i \in BinsWritten :
          smoothedFrequencyData[i]
             = SmoothedBin(obs.history[Len(obs.history)][i], fftData[i], fftSize, audio.smooth)
    /\ ui.pc = "gfd_unlock" => ui.outData = ApplySensitivity(obs.seen, ui.sens)
    /\ ui.pc = "gfb_unlock" =>
          ui.outBands = ApplySensitivity([k \in 1..ui.numBands |->
                                            BandValue(obs.seen, 0, k - 1, ui.numBands,
                                                      ui.loPass, ui.hiPass)], ui.sens)

\* an update has written every bin with the constant it loaded, and
\* setSmoothingTimeConstant has stored another constant since that load, one
\* that would have given the last bin another value
SmoothingSetMidUpdate ==
    /\ audio.pc = "update_unlock"
    /\ smoothingTimeConstant # audio.smooth
    /\ LET i == fftSize \div 2
       IN  smoothedFrequencyData[i]
              # SmoothedBin(obs.history[Len(obs.history)][i], fftData[i], fftSize,
                            smoothingTimeConstant)

(* ------------------------------------------------------------------ *)
(* The history of LiveWaveformVisualizer (SpecLive)                    *)
(* ------------------------------------------------------------------ *)

\* s is what is left of t when entries are dropped from its front
IsSuffix(s, t) == Len(s) <= Len(t) /\ s = SubSeq(t, Len(t) - Len(s) + 1, Len(t))

\* a timer callback with an analyzer set and the visualizer active has run
Ticked == live.ticks > 0

\* after the last such callback the history had at most historySize entries,
\* each in [0.05, 1], and was the history before it with the new level at its
\* end and the oldest entries dropped
TickTrims ==
    LET t == live.lastTick
    IN  /\ Len(t.after) <= t.historySize
        /\ \A k \in 1..Len(t.after) : kMinLevel <= t.after[k] /\ t.after[k] <= Unit
        /\ \E level \in kMinLevel..Unit : IsSuffix(t.after, Append(t.before, level))

\* C30: whatever was passed to setHistorySize, no timer callback erases from an
\* empty history; and after every callback with an analyzer set and the
\* visualizer active, the history holds at most historySize entries, each in
\* [0.05, 1], the oldest dropped first.
HistoryTrimmed == ~live.erasedEmpty /\ (Ticked => TickTrims)

\* the callbacks that find a historySize of 0 or more do as C30 says, and the
\* callbacks that find a negative one erase from an empty history
HistoryTrimmedFromZero ==
    Ticked => IF live.lastTick.historySize >= 0
              THEN ~live.erasedEmpty /\ TickTrims
              ELSE live.erasedEmpty

\* a callback that found historySize = -1 has erased from an empty history and
\* returned
ErasedEmptyAndReturned ==
    /\ live.undefined /\ ~crashed
    /\ live.lastTick.historySize = -1

\* a callback that found a history of two entries and historySize = 2 has
\* dropped the oldest entry for the new level
OldestDropped ==
    /\ LiveDefined /\ Ticked
    /\ Len(live.lastTick.before) = 2 /\ live.lastTick.historySize = 2
    /\ live.lastTick.after = Append(Tail(live.lastTick.before), live.lastTick.after[2])

\* getFrequencyBands has returned a band made of two reads below the array,
\* each of which found its own float: the band is the mean of a term of 0 and
\* the largest term
TwoStrayReadsDiffer ==
    /\ BandsDone
    /\ ui.numBands = 1 /\ ui.loPass = -2 /\ ui.hiPass = 0
    /\ ui.sens = Unit
    /\ ui.outBands = <<RDiv(kMaxTerm, 2)>>

====
